---------------------------- MODULE Spec2Model ----------------------------
(***************************************************************************)
(* Framium backend: the chat endpoint (api/chat.ts), its database helpers  *)
(* (lib/db.ts) and the model layer (lib/models.ts).                        *)
(*                                                                         *)
(* Every chat request is one asynchronous task.  Each await of the handler *)
(* is a point where other requests may run, so a request is modelled as a  *)
(* program counter that advances by one database call or one provider call *)
(* per step.  The database is the users table (id |-> plan) and the        *)
(* token_usage table (a sequence of rows in insertion order).              *)
(*                                                                         *)
(* Strings that the code searches (includes / startsWith) are spelled as   *)
(* sequences of characters by Spell; error messages are sequences of       *)
(* fragments.  Money is kept in exact integer units: a rate is in 1e-4 USD *)
(* per 1000 tokens, so tokens * rate is a cost in 1e-7 USD.                *)
(***************************************************************************)
EXTENDS Integers, Sequences, FiniteSets, TLC

\* ------------------------------------------------------------------ bounds

\* number of chat requests the runtime handles (each its own task)
NumRequests == 2
\* rows the ledger specification inserts, and the months its clock runs to
MaxRows == 3
MaxMonth == 2
\* catalog lookups the catalog specification makes
MaxCalls == 2
Requests == 1..NumRequests
\* number of deliveries the Stripe webhook endpoint handles
NumEvents == 2
Deliveries == 1..NumEvents

\* ------------------------------------------------------------- the domain

Null == "null"

Plans == {"BASIC", "MAX", "BEAST"}

\* rows of table users: the ids that exist
DbUsers == {"u1", "u2"}

\* userId values a request body may carry ("" is a missing field, "ghost"
\* has no row in users; u2 only owns rows of token_usage)
UserIds == {"", "ghost", "u1"}

\* model values a request body may carry ("" is a missing field)
RequestModels ==
  {"", "gpt-4.1", "claude-3-haiku-20240307", "gemini-pro",
   "openai/gpt-4o", "anthropic/claude-3-haiku"}

\* prompt lengths in characters (0 is the empty / missing prompt)
PromptLens == {0, 100}

\* the bodies of an existing user with every required field, a body of
\* an unknown user, and the three bodies that miss one field
FullBodies ==
  [userId : UserIds \cap DbUsers, model : RequestModels \ {""},
   promptLen : PromptLens \ {0}]

Bodies ==
  FullBodies \cup
    {[userId |-> "ghost", model |-> "gpt-4.1", promptLen |-> 100],
     [userId |-> "", model |-> "gpt-4.1", promptLen |-> 100],
     [userId |-> "u1", model |-> "", promptLen |-> 100],
     [userId |-> "u1", model |-> "gpt-4.1", promptLen |-> 0]}

\* what req.body holds when the method is not POST (it is never read)
NoBody == [userId |-> "", model |-> "", promptLen |-> 0]

\* --------------------------------------------------------------- strings

\* the characters of the strings the code searches
Spell(s) ==
  CASE s = "" ->
         << >>
    [] s = "gpt" ->
         <<"g", "p", "t">>
    [] s = "claude" ->
         <<"c", "l", "a", "u", "d", "e">>
    [] s = "gemini" ->
         <<"g", "e", "m", "i", "n", "i">>
    [] s = "beast" ->
         <<"b", "e", "a", "s", "t">>
    [] s = "premium" ->
         <<"p", "r", "e", "m", "i", "u", "m">>
    [] s = "max" ->
         <<"m", "a", "x">>
    [] s = "pro" ->
         <<"p", "r", "o">>
    [] s = "price_max_monthly" ->
         <<"p", "r", "i", "c", "e", "_", "m", "a", "x", "_", "m", "o", "n", "t", "h", "l", "y">>
    [] s = "price_premium" ->
         <<"p", "r", "i", "c", "e", "_", "p", "r", "e", "m", "i", "u", "m">>
    [] s = "gpt-4.1" ->
         <<"g", "p", "t", "-", "4", ".", "1">>
    [] s = "gpt-4o" ->
         <<"g", "p", "t", "-", "4", "o">>
    [] s = "gpt-3.5-turbo" ->
         <<"g", "p", "t", "-", "3", ".", "5", "-", "t", "u", "r", "b",
         "o">>
    [] s = "claude-3-haiku-20240307" ->
         <<"c", "l", "a", "u", "d", "e", "-", "3", "-", "h", "a", "i", "k",
         "u", "-", "2", "0", "2", "4", "0", "3", "0", "7">>
    [] s = "gemini-pro" ->
         <<"g", "e", "m", "i", "n", "i", "-", "p", "r", "o">>
    [] s = "openai/gpt-4o" ->
         <<"o", "p", "e", "n", "a", "i", "/", "g", "p", "t", "-", "4",
         "o">>
    [] s = "anthropic/claude-3-haiku" ->
         <<"a", "n", "t", "h", "r", "o", "p", "i", "c", "/", "c", "l", "a",
         "u", "d", "e", "-", "3", "-", "h", "a", "i", "k", "u">>
    [] s = "llama-3" ->
         <<"l", "l", "a", "m", "a", "-", "3">>
    [] s = "openai" ->
         <<"o", "p", "e", "n", "a", "i">>
    [] s = "anthropic" ->
         <<"a", "n", "t", "h", "r", "o", "p", "i", "c">>
    [] s = "google" ->
         <<"g", "o", "o", "g", "l", "e">>
    [] s = "openai/o1-mini" ->
         <<"o", "p", "e", "n", "a", "i", "/", "o", "1", "-", "m", "i", "n",
         "i">>
    [] s = "azure/gpt-4o" ->
         <<"a", "z", "u", "r", "e", "/", "g", "p", "t", "-", "4", "o">>
    [] s = "openai/gpt-3.5-turbo" ->
         <<"o", "p", "e", "n", "a", "i", "/", "g", "p", "t", "-", "3", ".",
         "5", "-", "t", "u", "r", "b", "o">>
    [] s = "google/gemini-1.5-flash" ->
         <<"g", "o", "o", "g", "l", "e", "/", "g", "e", "m", "i", "n", "i",
         "-", "1", ".", "5", "-", "f", "l", "a", "s", "h">>
    [] s = "openai/gpt-4o-mini" ->
         <<"o", "p", "e", "n", "a", "i", "/", "g", "p", "t", "-", "4", "o",
         "-", "m", "i", "n", "i">>
    [] s = "anthropic/claude-3-5-haiku" ->
         <<"a", "n", "t", "h", "r", "o", "p", "i", "c", "/", "c", "l", "a",
         "u", "d", "e", "-", "3", "-", "5", "-", "h", "a", "i", "k", "u">>
    [] s = "openai/gpt-4-turbo" ->
         <<"o", "p", "e", "n", "a", "i", "/", "g", "p", "t", "-", "4", "-",
         "t", "u", "r", "b", "o">>
    [] s = "cohere/command-r" ->
         <<"c", "o", "h", "e", "r", "e", "/", "c", "o", "m", "m", "a", "n",
         "d", "-", "r">>
    [] s = "anthropic/claude-3-5-sonnet" ->
         <<"a", "n", "t", "h", "r", "o", "p", "i", "c", "/", "c", "l", "a",
         "u", "d", "e", "-", "3", "-", "5", "-", "s", "o", "n", "n", "e",
         "t">>
    [] s = "google/gemini-1.5-pro" ->
         <<"g", "o", "o", "g", "l", "e", "/", "g", "e", "m", "i", "n", "i",
         "-", "1", ".", "5", "-", "p", "r", "o">>
    [] s = "xai/grok-beta" ->
         <<"x", "a", "i", "/", "g", "r", "o", "k", "-", "b", "e", "t",
         "a">>
    [] s = "cohere/command-r-plus" ->
         <<"c", "o", "h", "e", "r", "e", "/", "c", "o", "m", "m", "a", "n",
         "d", "-", "r", "-", "p", "l", "u", "s">>
    [] s = "meta-llama/llama-3.1-70b" ->
         <<"m", "e", "t", "a", "-", "l", "l", "a", "m", "a", "/", "l", "l",
         "a", "m", "a", "-", "3", ".", "1", "-", "7", "0", "b">>
    [] s = "anthropic/claude-3-opus" ->
         <<"a", "n", "t", "h", "r", "o", "p", "i", "c", "/", "c", "l", "a",
         "u", "d", "e", "-", "3", "-", "o", "p", "u", "s">>
    [] s = "meta-llama/llama-3.1-405b" ->
         <<"m", "e", "t", "a", "-", "l", "l", "a", "m", "a", "/", "l", "l",
         "a", "m", "a", "-", "3", ".", "1", "-", "4", "0", "5", "b">>
    [] s = "mistral/mistral-large" ->
         <<"m", "i", "s", "t", "r", "a", "l", "/", "m", "i", "s", "t", "r",
         "a", "l", "-", "l", "a", "r", "g", "e">>
    [] s = "perplexity/llama-3.1-sonar-large" ->
         <<"p", "e", "r", "p", "l", "e", "x", "i", "t", "y", "/", "l", "l",
         "a", "m", "a", "-", "3", ".", "1", "-", "s", "o", "n", "a", "r",
         "-", "l", "a", "r", "g", "e">>

\* String.prototype.startsWith on spelled strings
StartsWith(s, p) ==
  /\ Len(p) <= Len(s)
  /\ SubSeq(s, 1, Len(p)) = p

\* String.prototype.includes on spelled strings
Includes(s, p) ==
  \E i \in 0..(Len(s) - Len(p)) : SubSeq(s, i + 1, i + Len(p)) = p

\* error.message.includes('API Error') on a message kept as fragments
MessageIncludes(msg, fragment) ==
  \E i \in 1..Len(msg) : msg[i] = fragment


\* ------------------------------------------------- lib/models.ts (pure part)

\* the access rules of isModelAllowed, one array per plan
Rules(plan) ==
  CASE plan = "BASIC" ->
         {"gpt-4.1", "claude-3.7-sonnet", "claude-3-haiku-20240307",
          "gpt-3.5-turbo"}
    [] plan = "MAX" ->
         {"gpt-4.1", "gpt-4o", "gpt-4-turbo", "claude-3.7-sonnet",
          "claude-3.5-sonnet", "claude-4-sonnet", "claude-3-sonnet-20240229",
          "gemini-pro", "gemini-1.5-pro"}
    [] plan = "BEAST" ->
         {"gpt-4.1", "gpt-4o", "gpt-4-turbo", "gpt-4", "claude-3.7-sonnet",
          "claude-3.5-sonnet", "claude-4-sonnet", "claude-4.1-opus",
          "claude-3-opus-20240229", "claude-3-sonnet-20240229", "gemini-pro",
          "gemini-1.5-pro", "gemini-2.5-pro"}
    [] OTHER -> {}

\* rules[plan]?.includes(model) || false (no array for the plan: false)
isModelAllowed(plan, model) == model \in Rules(plan)

\* the plugin's catalog (aiService.ts): the model ids of each tier
ModelTiers(tier) ==
  CASE tier = "Basic" ->
         {"openai/gpt-3.5-turbo", "anthropic/claude-3-haiku",
          "google/gemini-1.5-flash"}
    [] tier = "Max" ->
         {"openai/gpt-4o-mini", "anthropic/claude-3-5-haiku",
          "google/gemini-1.5-flash", "openai/gpt-4-turbo", "cohere/command-r"}
    [] tier = "Beast" ->
         {"openai/gpt-4o", "anthropic/claude-3-5-sonnet",
          "google/gemini-1.5-pro", "xai/grok-beta", "cohere/command-r-plus",
          "meta-llama/llama-3.1-70b"}
    [] tier = "Ultimate" ->
         {"openai/gpt-4o", "anthropic/claude-3-5-sonnet",
          "anthropic/claude-3-opus", "google/gemini-1.5-pro", "xai/grok-beta",
          "meta-llama/llama-3.1-405b", "cohere/command-r-plus",
          "mistral/mistral-large", "perplexity/llama-3.1-sonar-large"}

\* getAvailableModels(userPlan): the ids of the models it returns
getAvailableModels(userPlan) == ModelTiers(userPlan)

\* costPer1k[model] || 0.01, in 1e-4 USD per 1000 tokens
RatePer1k(model) ==
  CASE model = "gpt-4" -> 300
    [] model = "gpt-4-turbo" -> 100
    [] model = "gpt-4o" -> 250
    [] model = "gpt-4.1" -> 30
    [] model = "gpt-3.5-turbo" -> 10
    [] model = "claude-3-opus-20240229" -> 750
    [] model = "claude-3-sonnet-20240229" -> 150
    [] model = "claude-3-haiku-20240307" -> 25
    [] model = "claude-3.5-sonnet" -> 150
    [] model = "claude-4-sonnet" -> 300
    [] model = "claude-4.1-opus" -> 600
    [] model = "claude-3.7-sonnet" -> 25
    [] model = "gemini-pro" -> 50
    [] model = "gemini-1.5-pro" -> 25
    [] model = "gemini-2.5-pro" -> 500
    [] OTHER -> 100

\* (tokens / 1000) * rate, in 1e-7 USD
calculateCost(model, tokens) == tokens * RatePer1k(model)

\* Math.ceil(a / b) for a >= 0, b > 0
CeilDiv(a, b) == (a + b - 1) \div b

\* ------------------------------------------------------ provider adapters

\* what the upstream API does with one call: a reply (with its usage
\* numbers and the length of its text) or a thrown Error (network failure,
\* or the error the SDK client throws for an HTTP error status); fetch, which
\* callGemini uses, returns an HTTP error status as a response
Upstreams ==
  { [kind |-> "reply", input_tokens |-> 100, output_tokens |-> 3997,
     has_usage |-> TRUE, total_tokens |-> 4096, chars |-> 16000],
    [kind |-> "throw", message |-> "fetch failed"],
    [kind |-> "http", message |-> "503 Service Unavailable"] }

\* the outcomes of a call made by the client of a provider
UpstreamsOf(provider) ==
  IF provider = "google" THEN Upstreams
  ELSE {up \in Upstreams : up.kind # "http"}

\* a normalized ModelResponse
ModelResponse(model, tokens, chars) ==
  [ok |-> TRUE, model |-> model, tokenUsage |-> tokens,
   cost |-> calculateCost(model, tokens), chars |-> chars]

\* a thrown Error with its message
Thrown(msg) == [ok |-> FALSE, message |-> msg]

callOpenAI(model, promptLen, up) ==
  IF up.kind = "reply"
  THEN ModelResponse(model,
                     IF up.has_usage THEN up.total_tokens ELSE 0,
                     up.chars)
  ELSE Thrown(<<"OpenAI ", "API Error", ": ", up.message>>)

callClaude(model, promptLen, up) ==
  IF up.kind = "reply"
  THEN ModelResponse(model, up.input_tokens + up.output_tokens, up.chars)
  ELSE Thrown(<<"Claude ", "API Error", ": ", up.message>>)

callGemini(model, promptLen, up) ==
  CASE up.kind = "reply" ->
         ModelResponse(model, CeilDiv(promptLen + up.chars, 4), up.chars)
    [] up.kind = "http" ->
         Thrown(<<"Gemini ", "API Error", ": ",
                  "Gemini ", "API Error", ": ", up.message>>)
    [] OTHER -> Thrown(<<"Gemini ", "API Error", ": ", up.message>>)

\* the part of a spelled model id before its first "/" (the whole id when
\* it has none)
RECURSIVE NamespaceOf(_)
NamespaceOf(s) ==
  IF s = << >> \/ Head(s) = "/" THEN << >>
  ELSE <<Head(s)>> \o NamespaceOf(Tail(s))

\* the provider family a namespace names
FamilyOf(namespace) ==
  CASE namespace = Spell("openai") -> "openai"
    [] namespace = Spell("anthropic") -> "anthropic"
    [] namespace = Spell("google") -> "google"
    [] OTHER -> Null

\* a router that resolves the family from the part before "/"
ProviderOf_ByNamespace(model) == FamilyOf(NamespaceOf(Spell(model)))

\* the provider family routeModelRequest picks, first matching rule first
ProviderOf(model) ==
  CASE StartsWith(Spell(model), Spell("gpt"))
         \/ Includes(Spell(model), Spell("gpt")) -> "openai"
    [] StartsWith(Spell(model), Spell("claude"))
         \/ Includes(Spell(model), Spell("claude")) -> "anthropic"
    [] StartsWith(Spell(model), Spell("gemini"))
         \/ Includes(Spell(model), Spell("gemini")) -> "google"
    [] OTHER -> Null

routeModelRequest(model, promptLen, up) ==
  CASE ProviderOf(model) = "openai" -> callOpenAI(model, promptLen, up)
    [] ProviderOf(model) = "anthropic" -> callClaude(model, promptLen, up)
    [] ProviderOf(model) = "google" -> callGemini(model, promptLen, up)
    [] OTHER -> Thrown(<<"Unsupported model: ", model>>)

\* ------------------------------------------------ api/chat.ts (pure part)

\* an estimate that rounds the quarter of the length up before the factor
estimateTokenUsage_CeilFirst(promptLen, contextLen) ==
  (3 * CeilDiv(promptLen + contextLen, 4)) \div 2

\* Math.ceil((totalText.length / 4) * 1.5)
estimateTokenUsage(promptLen, contextLen) ==
  CeilDiv(3 * (promptLen + contextLen), 8)

\* m.split('-')[0] of the three beastModels and of the three maxModels
BeastStems == {"claude", "gemini", "gpt"}
MaxStems == {"claude", "gpt"}

getRequiredPlan(model) ==
  IF \E m \in BeastStems : Includes(Spell(model), Spell(m)) THEN "BEAST"
  ELSE IF \E m \in MaxStems : Includes(Spell(model), Spell(m)) THEN "MAX"
  ELSE "BASIC"


\* ---------------------------------------------------------------- state

VARIABLES
  users,          \* table users: id |-> plan
  token_usage,    \* table token_usage: the rows, in insertion order
  now,            \* the month of the database clock, NOW()
  pc,             \* per request: the await the handler is at
  body,           \* per request: req.method and req.body
  local,          \* per request: userPlan, estimatedTokens, the plan of
                  \* user and usage.total_tokens in canUserMakeRequest (and
                  \* seen: how many rows token_usage had at that read)
  modelResponse,  \* per request: what routeModelRequest returned or threw
  response,       \* per request: the HTTP response sent (status 0: none yet)
  hist,           \* per request: the steps it completed, in order
  calls,          \* per request: the upstream provider calls it made
  lib,            \* calls of the library functions made outside the handler,
                  \* with what they returned
  env,            \* process.env.NODE_ENV
  subscriptions,  \* table subscriptions: stripe_subscription_id |-> row
  webhook,        \* per delivery of the Stripe webhook: the event, the
                  \* await its handler is at, its locals and its response
  requests,       \* the Map of a rateLimit middleware: ip |-> times
  clock           \* Date.now(), in milliseconds

\* the state the chat endpoint and the library calls never write
other == <<env, subscriptions, webhook, requests, clock>>

vars ==
  <<users, token_usage, now, pc, body, local, modelResponse, response,
    hist, calls, lib, env, subscriptions, webhook, requests, clock>>

\* ----------------------------------------------------- lib/db.ts (queries)

\* SELECT * FROM users WHERE id = userId: the rows (rows[0] || null is the
\* user, null when there is no row)
getUserById(userId) ==
  IF userId \in DOMAIN users THEN <<[id |-> userId, plan |-> users[userId]]>>
  ELSE << >>

\* SELECT plan FROM users WHERE id = userId; rows[0]?.plan || 'BASIC'
getUserPlan(userId) ==
  IF userId \in DOMAIN users THEN users[userId] ELSE "BASIC"

\* a query without the month filter
InCurrentMonth_Always(row) == TRUE

\* date_trunc('month', NOW()) <= created_at, with created_at kept as a month
InCurrentMonth(row) == row.created_at >= now

RECURSIVE SumTokens(_)
SumTokens(rows) ==
  IF rows = << >> THEN 0
  ELSE Head(rows).tokens_used + SumTokens(Tail(rows))

\* the rows the WHERE clause of getMonthlyTokenUsage selects
MonthlyRows(userId) ==
  SelectSeq(token_usage,
            LAMBDA row : row.user_id = userId /\ InCurrentMonth(row))

\* COALESCE(SUM(tokens_used), 0) of getMonthlyTokenUsage
getMonthlyTokenUsage(userId) == SumTokens(MonthlyRows(userId))

RECURSIVE SumCost(_)
SumCost(rows) ==
  IF rows = << >> THEN 0
  ELSE Head(rows).cost_usd + SumCost(Tail(rows))

\* COALESCE(SUM(cost_usd), 0) of getMonthlyTokenUsage, in 1e-6 USD
getMonthlyCost(userId) == SumCost(MonthlyRows(userId))

\* the token limits per plan (limits[user.plan])
BasicLimit == 50000
MaxLimit == 250000
BeastLimit == 1000000

\* a comparison that leaves the pending request out
WithinLimit_NoEstimate(plan, total_tokens, tokensNeeded) ==
  CASE plan = "BASIC" -> total_tokens <= BasicLimit
    [] plan = "MAX" -> total_tokens <= MaxLimit
    [] plan = "BEAST" -> total_tokens <= BeastLimit
    [] OTHER -> FALSE

\* (usage.total_tokens + tokensNeeded) <= limits[user.plan]; the comparison
\* with the undefined limit of an unlisted plan is false
WithinLimit(plan, total_tokens, tokensNeeded) ==
  CASE plan = "BASIC" -> total_tokens + tokensNeeded <= BasicLimit
    [] plan = "MAX" -> total_tokens + tokensNeeded <= MaxLimit
    [] plan = "BEAST" -> total_tokens + tokensNeeded <= BeastLimit
    [] OTHER -> FALSE

\* canUserMakeRequest, its two reads made with no write in between
canUserMakeRequest(userId, tokensNeeded) ==
  /\ getUserById(userId) # << >>
  /\ WithinLimit(getUserById(userId)[1].plan, getMonthlyTokenUsage(userId),
                 tokensNeeded)

\* cost_usd DECIMAL(10, 6): the cost in 1e-7 USD stored in 1e-6 USD, rounded
ToDecimal6(cost) == (cost + 5) \div 10

\* the row INSERT INTO token_usage writes (req: the request that wrote it,
\* kept for the record; 0 for rows that existed before)
UsageRow(userId, model, tokensUsed, costUsd, requestType, r) ==
  [user_id |-> userId, model |-> model, tokens_used |-> tokensUsed,
   cost_usd |-> ToDecimal6(costUsd), request_type |-> requestType,
   created_at |-> now, req |-> r]

\* a database call that fails
DbError == Thrown(<<"Connection terminated unexpectedly">>)


\* ------------------------------------------------ api/chat.ts (the handler)

\* the request has sent its response
Finish(r, resp) ==
  /\ pc' = [pc EXCEPT ![r] = "done"]
  /\ response' = [response EXCEPT ![r] = resp]

\* the request goes on to its next await
Goto(r, label) ==
  /\ pc' = [pc EXCEPT ![r] = label]
  /\ UNCHANGED response

Did(r, event) == hist' = [hist EXCEPT ![r] = Append(@, event)]

\* a catch block that answers every error alike
CatchResponse_Generic(err) ==
  [status |-> 500, error |-> "Internal server error"]

\* res.json of an Error object: its own enumerable properties, of which an
\* Error has none (message and stack are not enumerable)
JsonOfError(err) == << >>

\* the catch block of the handler: the response for a thrown error (a key
\* whose value is undefined is left out of the JSON body)
CatchResponse(err) ==
  IF MessageIncludes(err.message, "API Error")
  THEN [status |-> 502, error |-> "AI service temporarily unavailable",
        details |-> err.message]
  ELSE IF env = "development"
  THEN [status |-> 500, error |-> "Internal server error",
        details |-> JsonOfError(err)]
  ELSE [status |-> 500, error |-> "Internal server error"]

\* the handler is entered with a request: the method check and the
\* validation of the required fields
HandleRequest(r, req) ==
  /\ body' = [body EXCEPT ![r] =
                [method |-> req.method, userId |-> req.body.userId,
                 model |-> req.body.model,
                 promptLen |-> req.body.promptLen, mode |-> "ask"]]
  /\ IF req.method # "POST"
     THEN Finish(r, [status |-> 405, error |-> "Method not allowed"])
     ELSE IF req.body.userId = "" \/ req.body.model = ""
             \/ req.body.promptLen = 0
     THEN Finish(r, [status |-> 400,
                     error |-> "Missing required fields"])
     ELSE Goto(r, "getUserById")
  /\ Did(r, "received")
  /\ UNCHANGED <<users, other, token_usage, now, local, modelResponse, calls>>

\* a request arrives
Receive(r) ==
  /\ pc[r] = "idle"
  /\ \E req \in ([method : {"POST"}, body : Bodies]
                  \cup [method : {"GET"}, body : {NoBody}]) :
       HandleRequest(r, req)
  /\ UNCHANGED lib

\* Step 1: const user = await getUserById(userId)
ValidateUser(r) ==
  /\ pc[r] = "getUserById"
  /\ \/ /\ getUserById(body[r].userId) = << >>
        /\ Finish(r, [status |-> 404, error |-> "User not found"])
        /\ UNCHANGED hist
     \/ /\ getUserById(body[r].userId) # << >>
        /\ Goto(r, "getUserPlan")
        /\ Did(r, "user")
     \/ /\ Finish(r, CatchResponse(DbError))
        /\ UNCHANGED hist
  /\ UNCHANGED <<lib, users, other, token_usage, now, body, local, modelResponse, calls>>

\* Step 2: const userPlan = await getUserPlan(userId); isModelAllowed
CheckPlan(r) ==
  /\ pc[r] = "getUserPlan"
  /\ \/ LET userPlan == getUserPlan(body[r].userId) IN
          /\ local' = [local EXCEPT ![r].userPlan = userPlan,
                         ![r].estimatedTokens =
                            estimateTokenUsage(body[r].promptLen, 0)]
          /\ IF ~ isModelAllowed(userPlan, body[r].model)
             THEN /\ Finish(r, [status |-> 403,
                                error |-> "Plan upgrade required",
                                requiredPlan |->
                                  getRequiredPlan(body[r].model),
                                currentPlan |-> userPlan])
                  /\ UNCHANGED hist
             ELSE /\ Goto(r, "canUser")
                  /\ Did(r, "plan")
     \/ /\ Finish(r, CatchResponse(DbError))
        /\ UNCHANGED <<hist, local>>
  /\ UNCHANGED <<lib, users, other, token_usage, now, body, modelResponse, calls>>

\* Step 3, canUserMakeRequest: const user = await getUserById(userId)
AdmitUser(r) ==
  /\ pc[r] = "canUser"
  /\ \/ /\ getUserById(body[r].userId) = << >>
        /\ Finish(r, [status |-> 429,
                      error |-> "Token limit exceeded for current plan"])
        /\ UNCHANGED local
     \/ /\ getUserById(body[r].userId) # << >>
        /\ local' = [local EXCEPT ![r].user =
                       getUserById(body[r].userId)[1].plan]
        /\ Goto(r, "canUsage")
     \/ /\ Finish(r, CatchResponse(DbError))
        /\ UNCHANGED local
  /\ UNCHANGED <<lib, users, other, token_usage, now, body, modelResponse, hist, calls>>

\* a handler that computes the admission and dispatches whatever it says
AdmitUsage_Advisory(r) ==
  /\ pc[r] = "canUsage"
  /\ \/ LET total == getMonthlyTokenUsage(body[r].userId) IN
          /\ local' = [local EXCEPT ![r].usage = total,
                                    ![r].seen = Len(token_usage)]
          /\ Goto(r, "routeModelRequest")
          /\ Did(r, "quota")
     \/ /\ Finish(r, CatchResponse(DbError))
        /\ UNCHANGED <<hist, local>>
  /\ UNCHANGED <<lib, users, other, token_usage, now, body, modelResponse, calls>>

\* a handler that holds a lock of the user from admission to record
AdmitUsage_Locked(r) ==
  /\ pc[r] = "canUsage"
  /\ \A r2 \in Requests \ {r} :
       body[r2].userId = body[r].userId =>
         pc[r2] \notin {"routeModelRequest", "logTokenUsage"}
  /\ \/ LET total == getMonthlyTokenUsage(body[r].userId) IN
          /\ local' = [local EXCEPT ![r].usage = total,
                                    ![r].seen = Len(token_usage)]
          /\ IF ~ WithinLimit(local[r].user, total, local[r].estimatedTokens)
             THEN /\ Finish(r, [status |-> 429,
                                error |->
                                  "Token limit exceeded for current plan"])
                  /\ Did(r, "quota_exceeded")
             ELSE /\ Goto(r, "routeModelRequest")
                  /\ Did(r, "quota")
     \/ /\ Finish(r, CatchResponse(DbError))
        /\ UNCHANGED <<hist, local>>
  /\ UNCHANGED <<lib, users, other, token_usage, now, body, modelResponse, calls>>

\* Step 3, canUserMakeRequest: const usage = await getMonthlyTokenUsage,
\* the comparison with the limit, and the 429 of the handler
AdmitUsage(r) ==
  /\ pc[r] = "canUsage"
  /\ \/ LET total == getMonthlyTokenUsage(body[r].userId) IN
          /\ local' = [local EXCEPT ![r].usage = total,
                                    ![r].seen = Len(token_usage)]
          /\ IF ~ WithinLimit(local[r].user, total, local[r].estimatedTokens)
             THEN /\ Finish(r, [status |-> 429,
                                error |->
                                  "Token limit exceeded for current plan"])
                  /\ Did(r, "quota_exceeded")
             ELSE /\ Goto(r, "routeModelRequest")
                  /\ Did(r, "quota")
     \/ /\ Finish(r, CatchResponse(DbError))
        /\ UNCHANGED <<hist, local>>
  /\ UNCHANGED <<lib, users, other, token_usage, now, body, modelResponse, calls>>

\* a handler that writes its usage row whether or not the dispatch threw
Dispatch_LogsAnyway(r) ==
  /\ pc[r] = "routeModelRequest"
  /\ \E up \in UpstreamsOf(ProviderOf(body[r].model)) :
       LET mr == routeModelRequest(body[r].model, body[r].promptLen, up) IN
         /\ modelResponse' = [modelResponse EXCEPT ![r] = mr]
         /\ calls' = [calls EXCEPT ![r] =
                        IF ProviderOf(body[r].model) = Null THEN @ ELSE @ + 1]
         /\ IF mr.ok
            THEN /\ Goto(r, "logTokenUsage")
                 /\ Did(r, "dispatch")
                 /\ UNCHANGED token_usage
            ELSE /\ Finish(r, CatchResponse(mr))
                 /\ Did(r, "dispatch_threw")
                 /\ token_usage' =
                      Append(token_usage,
                             UsageRow(body[r].userId, body[r].model, 0, 0,
                                      body[r].mode, r))
  /\ UNCHANGED <<lib, users, other, now, body, local>>

\* Step 4: const modelResponse = await routeModelRequest(...)
Dispatch(r) ==
  /\ pc[r] = "routeModelRequest"
  /\ \E up \in UpstreamsOf(ProviderOf(body[r].model)) :
       LET mr == routeModelRequest(body[r].model, body[r].promptLen, up) IN
         /\ modelResponse' = [modelResponse EXCEPT ![r] = mr]
         /\ calls' = [calls EXCEPT ![r] =
                        IF ProviderOf(body[r].model) = Null THEN @ ELSE @ + 1]
         /\ IF mr.ok
            THEN /\ Goto(r, "logTokenUsage")
                 /\ Did(r, "dispatch")
            ELSE /\ Finish(r, CatchResponse(mr))
                 /\ Did(r, "dispatch_threw")
  /\ UNCHANGED <<lib, users, other, token_usage, now, body, local>>

\* a handler that catches the failure of the insert and answers anyway
LogUsage_Swallowed(r) ==
  /\ pc[r] = "logTokenUsage"
  /\ \/ /\ token_usage' =
             Append(token_usage,
                    UsageRow(body[r].userId, body[r].model,
                             modelResponse[r].tokenUsage,
                             modelResponse[r].cost, body[r].mode, r))
        /\ Goto(r, "respond")
        /\ Did(r, "record")
     \/ /\ Goto(r, "respond")
        /\ Did(r, "record_threw")
        /\ UNCHANGED token_usage
  /\ UNCHANGED <<lib, users, other, now, body, local, modelResponse, calls>>

\* a handler that writes the usage row of a dispatch twice
LogUsage_Twice(r) ==
  /\ pc[r] = "logTokenUsage"
  /\ \/ /\ token_usage' =
             Append(Append(token_usage,
                           UsageRow(body[r].userId, body[r].model,
                                    modelResponse[r].tokenUsage,
                                    modelResponse[r].cost, body[r].mode, r)),
                    UsageRow(body[r].userId, body[r].model,
                             modelResponse[r].tokenUsage,
                             modelResponse[r].cost, body[r].mode, r))
        /\ Goto(r, "respond")
        /\ Did(r, "record")
     \/ /\ Finish(r, CatchResponse(DbError))
        /\ Did(r, "record_threw")
        /\ UNCHANGED token_usage
  /\ UNCHANGED <<lib, users, other, now, body, local, modelResponse, calls>>

\* a handler whose failed insert leaves the request without a response
LogUsage_Unanswered(r) ==
  /\ pc[r] = "logTokenUsage"
  /\ \/ /\ token_usage' =
             Append(token_usage,
                    UsageRow(body[r].userId, body[r].model,
                             modelResponse[r].tokenUsage,
                             modelResponse[r].cost, body[r].mode, r))
        /\ Goto(r, "respond")
        /\ Did(r, "record")
     \/ /\ Goto(r, "unanswered")
        /\ Did(r, "record_threw")
        /\ UNCHANGED token_usage
  /\ UNCHANGED <<lib, users, other, now, body, local, modelResponse, calls>>

\* Step 5: await logTokenUsage(userId, model, tokenUsage, cost, mode)
LogUsage(r) ==
  /\ pc[r] = "logTokenUsage"
  /\ \/ /\ token_usage' =
             Append(token_usage,
                    UsageRow(body[r].userId, body[r].model,
                             modelResponse[r].tokenUsage,
                             modelResponse[r].cost, body[r].mode, r))
        /\ Goto(r, "respond")
        /\ Did(r, "record")
     \/ /\ Finish(r, CatchResponse(DbError))
        /\ Did(r, "record_threw")
        /\ UNCHANGED token_usage
  /\ UNCHANGED <<lib, users, other, now, body, local, modelResponse, calls>>

\* Step 6: return res.status(200).json(...)
Respond(r) ==
  /\ pc[r] = "respond"
  /\ Finish(r, [status |-> 200, model |-> modelResponse[r].model,
                tokenUsage |-> modelResponse[r].tokenUsage,
                cost |-> modelResponse[r].cost, mode |-> body[r].mode])
  /\ Did(r, "respond")
  /\ UNCHANGED <<lib, users, other, token_usage, now, body, local, modelResponse, calls>>

\* ------------------------------------------------------- the specification

\* what the tables hold when the requests arrive: u1 on any plan, with a
\* row of last month and this month's usage one estimate short of the
\* limit of the plan, or at the limit; u2 on MAX with usage above the BASIC
\* limit
LimitOf(plan) ==
  CASE plan = "BASIC" -> BasicLimit
    [] plan = "MAX" -> MaxLimit
    [] plan = "BEAST" -> BeastLimit

OldRow(userId, tokens, month) ==
  [user_id |-> userId, model |-> "gpt-4.1", tokens_used |-> tokens,
   cost_usd |-> ToDecimal6(calculateCost("gpt-4.1", tokens)),
   request_type |-> "ask", created_at |-> month, req |-> 0]

\* a delivery that has not arrived
NoDelivery ==
  [pc |-> "idle", status |-> 0, method |-> "", signed |-> FALSE, type |-> "",
   id |-> "", newStatus |-> "", plan |-> "", userId |-> Null,
   outcome |-> ""]

\* the process runs as deployed, no subscription is stored, no webhook
\* delivery has arrived and the rate limiter has seen no request
InitOther ==
  /\ env = "production"
  /\ subscriptions = << >>
  /\ webhook = [d \in Deliveries |-> NoDelivery]
  /\ requests = << >>
  /\ clock = 0

\* no request has arrived
InitRequests ==
  /\ pc = [r \in Requests |-> "idle"]
  /\ body = [r \in Requests |-> [method |-> "", userId |-> "", model |-> "",
                                 promptLen |-> 0, mode |-> ""]]
  /\ local = [r \in Requests |-> [userPlan |-> Null, estimatedTokens |-> 0,
                                  user |-> Null, usage |-> 0, seen |-> 0]]
  /\ modelResponse = [r \in Requests |-> Thrown(<< >>)]
  /\ response = [r \in Requests |-> [status |-> 0]]
  /\ hist = [r \in Requests |-> << >>]
  /\ calls = [r \in Requests |-> 0]

Init ==
  /\ now = 1
  /\ lib = {}
  /\ InitRequests
  /\ InitOther
  /\ \E plan \in Plans :
       /\ users = [u \in DbUsers |-> IF u = "u1" THEN plan ELSE "MAX"]
       /\ \E used \in {LimitOf(plan) - estimateTokenUsage(100, 0),
                      LimitOf(plan)} :
            token_usage =
              <<OldRow("u1", 30000, 0), OldRow("u2", 60000, 1),
                OldRow("u1", used, 1)>>

Next ==
  \/ \E r \in Requests : Receive(r)
  \/ \E r \in Requests : ValidateUser(r)
  \/ \E r \in Requests : CheckPlan(r)
  \/ \E r \in Requests : AdmitUser(r)
  \/ \E r \in Requests : AdmitUsage(r)
  \/ \E r \in Requests : Dispatch(r)
  \/ \E r \in Requests : LogUsage(r)
  \/ \E r \in Requests : Respond(r)

Spec == Init /\ [][Next]_vars

TypeOK ==
  /\ now = 1
  /\ \A r \in Requests : response[r].status \in
       {0, 405, 400, 404, 403, 429, 200, 502, 500}


\* ----------------------------------------------------- the chat handler

\* the rows of token_usage a request wrote
RowsOf(r) == SelectSeq(token_usage, LAMBDA row : row.req = r)

Has(r, event) == \E i \in 1..Len(hist[r]) : hist[r][i] = event

Before(r, e1, e2) ==
  \E i, j \in 1..Len(hist[r]) : i < j /\ hist[r][i] = e1 /\ hist[r][j] = e2

\* C1: a request has a usage row only if its routeModelRequest returned
\* a response before the row was written, and a request whose dispatch
\* threw has no usage row.
C1_UsageOnlyAfterDispatch ==
  \A r \in Requests :
    /\ RowsOf(r) # << >> =>
         /\ modelResponse[r].ok
         /\ Before(r, "dispatch", "record")
    /\ Has(r, "dispatch_threw") => RowsOf(r) = << >>

\* a request wrote its row after a successful dispatch while the dispatch
\* of another request threw
C1_Witness ==
  \E r1, r2 \in Requests :
    /\ RowsOf(r1) # << >> /\ Has(r1, "dispatch")
    /\ Has(r2, "dispatch_threw") /\ pc[r2] = "done"

\* C2: a request that was answered 200 has its usage row in the ledger,
\* written before the response was sent.
C2_RecordedBefore200 ==
  \A r \in Requests :
    response[r].status = 200 =>
      /\ Len(RowsOf(r)) = 1
      /\ Before(r, "record", "respond")

C2_Witness == \E r \in Requests : response[r].status = 200

\* C3: a request whose dispatch succeeded and whose ledger insert failed is
\* answered 200.
C3_LedgerFailureStill200 ==
  \A r \in Requests :
    (Has(r, "dispatch") /\ Has(r, "record_threw") /\ pc[r] = "done")
      => response[r].status = 200

\* C4: a request whose provider adapter failed is answered 502 and has
\* written no usage row.
C4_ProviderFailure502 ==
  \A r \in Requests :
    (Has(r, "dispatch_threw") /\ ProviderOf(body[r].model) # Null) =>
      /\ response[r].status = 502
      /\ RowsOf(r) = << >>

\* two requests failed in two different adapters, one on a network
\* failure and one on an HTTP error
C4_Witness ==
  \E r1, r2 \in Requests :
    /\ Has(r1, "dispatch_threw") /\ Has(r2, "dispatch_threw")
    /\ ProviderOf(body[r1].model) = "google"
    /\ ProviderOf(body[r2].model) \in {"openai", "anthropic"}
    /\ response[r1].status = 502 /\ response[r2].status = 502
    /\ "Gemini " = modelResponse[r1].message[4]
    /\ modelResponse[r2].message[4] = "fetch failed"

\* C5: a rejected request (400, 404, 403, 429) has made no provider call
\* and written no usage row, and a request checked for admission when the
\* month's total equalled the limit of the plan is answered 429.
C5_RejectionsHaveNoEffect ==
  \A r \in Requests :
    /\ response[r].status \in {400, 404, 403, 429} =>
         /\ calls[r] = 0
         /\ RowsOf(r) = << >>
    /\ ((Has(r, "quota") \/ Has(r, "quota_exceeded"))
          /\ local[r].usage = LimitOf(local[r].user))
         => response[r].status = 429

\* one request was rejected at the limit and another for its plan
C5_Witness ==
  \E r1, r2 \in Requests :
    /\ response[r1].status = 429
    /\ local[r1].usage = BasicLimit /\ local[r1].user = "BASIC"
    /\ response[r2].status = 403

\* the steps of a request that went through, in order
Canon ==
  <<"received", "user", "plan", "quota", "dispatch", "record", "respond">>

\* the step at which each failure can happen
Slot(event) ==
  CASE event = "quota_exceeded" -> 4
    [] event = "dispatch_threw" -> 5
    [] event = "record_threw" -> 6
    [] OTHER -> 0

\* C6: the steps of a request happen in the order user lookup, plan check,
\* quota check, dispatch, record; a provider is called only by a request
\* whose user was found, whose model its plan allows and whose quota check
\* passed.
C6_StrictOrder ==
  \A r \in Requests :
    /\ Len(hist[r]) <= Len(Canon)
    /\ \A i \in 1..Len(hist[r]) :
         \/ hist[r][i] = Canon[i]
         \/ i = Len(hist[r]) /\ i = Slot(hist[r][i])
    /\ (calls[r] > 0 \/ pc[r] \in {"logTokenUsage", "respond"}) =>
         /\ SubSeq(hist[r], 1, 4) = SubSeq(Canon, 1, 4)
         /\ body[r].userId \in DOMAIN users
         /\ isModelAllowed(local[r].userPlan, body[r].model)
         /\ WithinLimit(local[r].user, local[r].usage,
                        local[r].estimatedTokens)

C6_Witness ==
  \E r \in Requests : hist[r] = Canon /\ calls[r] = 1


\* ------------------------------------- two requests of one user that overlap

\* the index of the row a request wrote
RowIndex(r) == CHOOSE i \in 1..Len(token_usage) : token_usage[i].req = r

\* the tokens recorded for a request
Recorded(r) == token_usage[RowIndex(r)].tokens_used

\* both requests were checked for admission before either wrote its row
Concurrent(r1, r2) ==
  /\ r1 # r2
  /\ body[r1].userId = body[r2].userId
  /\ local[r1].user = local[r2].user
  /\ Has(r1, "record") /\ Has(r2, "record")
  /\ local[r1].seen < RowIndex(r2)
  /\ local[r2].seen < RowIndex(r1)

\* no other request has written a row of that user since the two were
\* checked for admission
OnlyThese(r1, r2) ==
  \A i \in 1..Len(token_usage) :
    (i > local[r1].seen /\ token_usage[i].user_id = body[r1].userId)
      => token_usage[i].req \in {r1, r2}

\* C8: the quota check takes no lock: a request at the quota check whose
\* estimate fits the ledger as it stands can pass it, whatever the other
\* requests of the user are doing.
C8_NoLock ==
  \A r \in Requests :
    (pc[r] = "canUsage"
       /\ WithinLimit(local[r].user, getMonthlyTokenUsage(body[r].userId),
                      local[r].estimatedTokens))
      => ENABLED (AdmitUsage(r) /\ pc'[r] = "routeModelRequest")

\* two requests of one user passed the check against the same ledger
\* state, both dispatched and both wrote a row, although the second would
\* have been rejected had it been checked after the row of the first
C8_Witness ==
  \E r1, r2 \in Requests :
    /\ Concurrent(r1, r2)
    /\ local[r1].seen = local[r2].seen
    /\ local[r1].usage = local[r2].usage
    /\ calls[r1] = 1 /\ calls[r2] = 1
    /\ ~ WithinLimit(local[r2].user, local[r1].usage + Recorded(r1),
                     local[r2].estimatedTokens)

Max2(a, b) == IF a >= b THEN a ELSE b

\* C9 as claimed: after two concurrent requests of a user wrote their rows,
\* the month's total exceeds the limit by at most the tokens recorded for
\* one of them.
C9_OverrunAtMostOneRequest ==
  \A r1, r2 \in Requests :
    (Concurrent(r1, r2) /\ OnlyThese(r1, r2)) =>
      getMonthlyTokenUsage(body[r1].userId) - LimitOf(local[r1].user)
        <= Max2(Recorded(r1), Recorded(r2))

\* C9 as amended: after two concurrent requests of a user wrote their rows
\* (and no other request of the user wrote one), the month's total exceeds
\* the limit used at admission by less than the tokens recorded for the two
\* requests together.
C9_OverrunBelowBothRequests ==
  \A r1, r2 \in Requests :
    (Concurrent(r1, r2) /\ OnlyThese(r1, r2)) =>
      getMonthlyTokenUsage(body[r1].userId) - LimitOf(local[r1].user)
        < Recorded(r1) + Recorded(r2)

\* two concurrent requests pushed the total over the limit by more than
\* either recorded
C9_Witness ==
  \E r1, r2 \in Requests :
    /\ Concurrent(r1, r2) /\ OnlyThese(r1, r2)
    /\ getMonthlyTokenUsage(body[r1].userId) - LimitOf(local[r1].user)
         > Max2(Recorded(r1), Recorded(r2))

\* ------------------------------------------------ the ledger on its own
\* logTokenUsage, the clock and canUserMakeRequest called directly, to
\* settle what canUserMakeRequest returns on any ledger.

\* tokens of the rows inserted, chosen to meet each limit exactly
LedgerTokens == {BasicLimit - 1, MaxLimit - BasicLimit, BeastLimit - MaxLimit}

\* the rows inserted: those of u1, and one of another user
LedgerRows ==
  [userId : {"u1"}, tokens : LedgerTokens]
    \cup {[userId |-> "u2", tokens |-> BasicLimit - 1]}

\* tokensNeeded of the calls
Needed == {0, 1, 2}

LedgerInit ==
  /\ now = 1
  /\ lib = {}
  /\ InitRequests
  /\ InitOther
  /\ token_usage = << >>
  /\ \E plan \in Plans :
       users = [u \in DbUsers |-> IF u = "u1" THEN plan ELSE "MAX"]

UNCHANGED_Requests ==
  UNCHANGED <<pc, body, local, modelResponse, response, hist, calls>>

LedgerInsert ==
  /\ Len(token_usage) < MaxRows
  /\ \E row \in LedgerRows :
       token_usage' =
         Append(token_usage,
                UsageRow(row.userId, "gpt-4.1", row.tokens,
                         calculateCost("gpt-4.1", row.tokens), "chat", 0))
  /\ lib' = {}
  /\ UNCHANGED <<users, other, now>>
  /\ UNCHANGED_Requests

LedgerTick ==
  /\ now < MaxMonth
  /\ now' = now + 1
  /\ lib' = {}
  /\ UNCHANGED <<users, other, token_usage>>
  /\ UNCHANGED_Requests

LedgerCanUserMakeRequest ==
  /\ \E userId \in DbUsers \cup {"ghost"}, tokensNeeded \in Needed :
       lib' = {[fn |-> "canUserMakeRequest", userId |-> userId,
                tokensNeeded |-> tokensNeeded,
                value |-> canUserMakeRequest(userId, tokensNeeded)]}
  /\ UNCHANGED <<users, other, token_usage, now>>
  /\ UNCHANGED_Requests

LedgerNext == LedgerInsert \/ LedgerTick \/ LedgerCanUserMakeRequest

SpecLedger == LedgerInit /\ [][LedgerNext]_vars

\* the sum the claim speaks of: tokens_used over the rows of the user
\* created in the month of the clock
RECURSIVE C7_Sum(_, _)
C7_Sum(userId, n) ==
  IF n = 0 THEN 0
  ELSE C7_Sum(userId, n - 1)
       + (IF token_usage[n].user_id = userId /\ token_usage[n].created_at = now
          THEN token_usage[n].tokens_used ELSE 0)

C7_Quota(plan) ==
  CASE plan = "BASIC" -> 50000
    [] plan = "MAX" -> 250000
    [] plan = "BEAST" -> 1000000

\* C7: canUserMakeRequest(userId, n) is true exactly when the user exists
\* and the tokens of the user's rows of the current month plus n do not
\* exceed the quota of the user's plan (50000, 250000, 1000000).
C7_CanUserMakeRequest ==
  \A c \in lib :
    c.fn = "canUserMakeRequest" =>
      c.value =
        (/\ c.userId \in DOMAIN users
         /\ C7_Sum(c.userId, Len(token_usage)) + c.tokensNeeded
              <= C7_Quota(users[c.userId]))

\* a call that met the MAX quota exactly, with a row of an earlier month
\* in the ledger
C7_Witness ==
  \E c \in lib :
    /\ c.fn = "canUserMakeRequest" /\ c.value
    /\ users[c.userId] = "MAX"
    /\ C7_Sum(c.userId, Len(token_usage)) + c.tokensNeeded = 250000
    /\ \E i \in 1..Len(token_usage) :
         token_usage[i].user_id = c.userId /\ token_usage[i].created_at < now

\* ----------------------------------------------- the catalogs on their own
\* isModelAllowed of the server and the tiers of the plugin, looked up
\* directly.

\* the tier orders
PlanRank(plan) ==
  CASE plan \in {"BASIC", "Basic"} -> 0
    [] plan \in {"MAX", "Max"} -> 1
    [] plan \in {"BEAST", "Beast"} -> 2
    [] plan = "Ultimate" -> 3

Tiers == {"Basic", "Max", "Beast", "Ultimate"}

CatalogInit ==
  /\ now = 1
  /\ lib = {}
  /\ InitRequests
  /\ InitOther
  /\ token_usage = << >>
  /\ users = [u \in DbUsers |-> "BASIC"]

CatalogIsModelAllowed ==
  /\ Cardinality(lib) < MaxCalls
  /\ \E plan \in Plans, model \in UNION {Rules(p) : p \in Plans} :
       lib' = lib \cup {[fn |-> "isModelAllowed", plan |-> plan,
                         model |-> model,
                         value |-> isModelAllowed(plan, model)]}
  /\ UNCHANGED <<users, other, token_usage, now>>
  /\ UNCHANGED_Requests

CatalogGetAvailableModels ==
  /\ Cardinality(lib) < MaxCalls
  /\ \E tier \in Tiers, model \in UNION {ModelTiers(t) : t \in Tiers} :
       lib' = lib \cup {[fn |-> "getAvailableModels", plan |-> tier,
                         model |-> model,
                         value |-> model \in getAvailableModels(tier)]}
  /\ UNCHANGED <<users, other, token_usage, now>>
  /\ UNCHANGED_Requests

CatalogNext == CatalogIsModelAllowed \/ CatalogGetAvailableModels

SpecCatalog == CatalogInit /\ [][CatalogNext]_vars

\* C10: a model allowed for a plan is allowed for every higher plan, in the
\* server's rules and in the plugin's catalog.
C10_TiersCumulative ==
  \A c1, c2 \in lib :
    (c1.fn = c2.fn /\ c1.model = c2.model
       /\ PlanRank(c1.plan) < PlanRank(c2.plan) /\ c1.value)
      => c2.value

\* ------------------------------------------- the library functions on their
\* own: a behaviour is one call of a pure function of lib/models.ts,
\* lib/db.ts or api/chat.ts, kept in lib with its arguments and what it
\* returned.

\* plan names outside the three of the users table: an unlisted name, a
\* listed name in another case, the empty string, and a property name every
\* object literal inherits from Object.prototype
UnknownPlans == {"FREE", "basic", "", "constructor"}

\* the keys of rules that are not its own: rules[plan] is then a function
\* or an object without an includes method
InheritedKeys == {"constructor"}

\* rules[plan]?.includes(model): the optional chain only guards a missing
\* rules[plan]; calling the missing method of an inherited one is a TypeError
isModelAllowedThrows(plan) == plan \in InheritedKeys

\* every model id of the rules
RuleModels == UNION {Rules(p) : p \in Plans}

\* usage.total_tokens of the calls of the limit comparison
LimitTotals == {0, BasicLimit, BasicLimit + 1}

LibraryInit == CatalogInit

LibraryIsModelAllowed ==
  /\ lib = {}
  /\ \E plan \in Plans \cup UnknownPlans, model \in RuleModels :
       lib' = {[fn |-> "isModelAllowed", plan |-> plan, model |-> model,
                threw |-> isModelAllowedThrows(plan),
                value |-> isModelAllowed(plan, model)]}
  /\ UNCHANGED <<users, other, token_usage, now>>
  /\ UNCHANGED_Requests

\* the comparison of canUserMakeRequest for a user row of the given plan
LibraryWithinLimit ==
  /\ lib = {}
  /\ \E plan \in Plans \cup UnknownPlans, total \in LimitTotals,
        tokensNeeded \in Needed :
       lib' = {[fn |-> "WithinLimit", plan |-> plan, total |-> total,
                tokensNeeded |-> tokensNeeded,
                value |-> WithinLimit(plan, total, tokensNeeded)]}
  /\ UNCHANGED <<users, other, token_usage, now>>
  /\ UNCHANGED_Requests

\* C11: a plan name outside BASIC, MAX, BEAST is treated as BASIC:
\* isModelAllowed returns for it what it returns for BASIC, without
\* throwing, and the limit it is compared with is that of BASIC.
C11_UnknownTierIsBasic ==
  \A c \in lib :
    /\ (c.fn = "isModelAllowed" /\ c.plan \notin Plans) =>
         /\ ~ c.threw
         /\ c.value = isModelAllowed("BASIC", c.model)
    /\ (c.fn = "WithinLimit" /\ c.plan \notin Plans) =>
         c.value = WithinLimit("BASIC", c.total, c.tokensNeeded)

\* ------------------------------------------- the responses of the handler

\* the plans that allow a model
AllowingPlans(model) == {p \in Plans : isModelAllowed(p, model)}

\* C12: the requiredPlan of a 403 response is the lowest plan that allows
\* the model and is above the currentPlan of the response; for a BASIC user
\* asking for "openai/gpt-4o" it is not BASIC.
C12_RequiredPlanIsMinimum ==
  \A r \in Requests :
    response[r].status = 403 =>
      /\ response[r].requiredPlan \in AllowingPlans(body[r].model)
      /\ \A p \in AllowingPlans(body[r].model) :
           PlanRank(response[r].requiredPlan) <= PlanRank(p)
      /\ PlanRank(response[r].requiredPlan) > PlanRank(response[r].currentPlan)
      /\ (response[r].currentPlan = "BASIC" /\ body[r].model = "openai/gpt-4o")
           => response[r].requiredPlan # "BASIC"

\* a finished POST of a BASIC user for the model, with every required
\* field, no failure of the database or of the provider, and a ledger that
\* leaves room for its estimate
ScenarioA(r, model) ==
  /\ pc[r] = "done"
  /\ body[r].method = "POST"
  /\ body[r].userId \in DOMAIN users
  /\ users[body[r].userId] = "BASIC"
  /\ body[r].model = model
  /\ body[r].promptLen > 0
  /\ response[r].status \notin {500, 502}
  /\ getMonthlyTokenUsage(body[r].userId)
       + estimateTokenUsage(body[r].promptLen, 0) <= BasicLimit

\* C13: a request of a BASIC user with enough quota left for the model
\* "anthropic/claude-3-haiku" passes the plan check, is dispatched to a
\* provider, writes exactly one usage row and is answered 200.
C13_BasicHaikuIsServed ==
  \A r \in Requests :
    ScenarioA(r, "anthropic/claude-3-haiku") =>
      /\ Has(r, "plan")
      /\ calls[r] = 1
      /\ Len(RowsOf(r)) = 1
      /\ response[r].status = 200

\* a cost_usd of DECIMAL(10, 6), in the unit of the cost of a response
Decimal6AsCost(costUsd) == costUsd * 10

\* C14: the tokenUsage and the cost of a 200 response are the tokens_used
\* and the cost_usd of the row the request wrote, and the row carries the
\* userId and the model of the request.
C14_ResponseMatchesRow ==
  \A r \in Requests :
    (response[r].status = 200 /\ Len(RowsOf(r)) = 1) =>
      /\ response[r].tokenUsage = RowsOf(r)[1].tokens_used
      /\ response[r].cost = Decimal6AsCost(RowsOf(r)[1].cost_usd)
      /\ RowsOf(r)[1].user_id = body[r].userId
      /\ RowsOf(r)[1].model = body[r].model

\* --------------------------------------------- the plugin's client, api.ts
\* APIService.sendChatMessage next to requests sent to /api/chat directly;
\* a call is kept in lib with the request it sent and where it is.

\* the AIRequestData of the calls (selection and mode left out)
ClientData == [model : {"gpt-4.1", "openai/gpt-4o"}, promptLen : {100}]

\* the body makeRequest posts: { message, model, selection, mode }; it has
\* no userId and no prompt field
ClientBody(data) == [userId |-> "", model |-> data.model, promptLen |-> 0]

\* response.ok of fetch
ResponseOk(resp) == resp.status >= 200 /\ resp.status <= 299

\* response.tokens and response.cost || 0 of the parsed body (0: undefined)
ResponseTokens(resp) == IF "tokens" \in DOMAIN resp THEN resp.tokens ELSE 0
ResponseCost(resp) == IF "cost" \in DOMAIN resp THEN resp.cost ELSE 0

\* the call of sendChatMessage made for request r, if any
ClientCalls(r) == {c \in lib : c.fn = "sendChatMessage" /\ c.r = r}

ClientCall(r, data, at, message) ==
  [fn |-> "sendChatMessage", r |-> r, data |-> data, at |-> at,
   message |-> message]

\* sendChatMessage up to the fetch of makeRequest: auth.getUser, the
\* can_user_make_request call (answered by the database service) and the
\* POST, which enters the handler
ClientSend(r) ==
  /\ pc[r] = "idle"
  /\ ClientCalls(r) = {}
  /\ \E data \in ClientData, user \in {Null, "u1"}, canMakeRequest \in BOOLEAN :
       IF user = Null
       THEN /\ lib' = lib \cup {ClientCall(r, data, "threw",
                                           "User not authenticated")}
            /\ UNCHANGED <<users, other, token_usage, now>>
            /\ UNCHANGED_Requests
       ELSE IF ~ canMakeRequest
       THEN /\ lib' = lib \cup
                 {ClientCall(r, data, "threw",
                             "Token limit exceeded for your current plan")}
            /\ UNCHANGED <<users, other, token_usage, now>>
            /\ UNCHANGED_Requests
       ELSE /\ lib' = lib \cup {ClientCall(r, data, "fetch", "")}
            /\ HandleRequest(r, [method |-> "POST", body |-> ClientBody(data)])

\* sendChatMessage from the answer of the server on: makeRequest throws on
\* a status that is not ok; otherwise db.tokenUsage.logUsage is called when
\* the parsed body has tokens
ClientReceive(r) ==
  /\ pc[r] = "done"
  /\ \E c \in ClientCalls(r) :
       /\ c.at = "fetch"
       /\ IF ~ ResponseOk(response[r])
          THEN /\ lib' = (lib \ {c}) \cup
                    {ClientCall(r, c.data, "threw", "HTTP")}
               /\ UNCHANGED token_usage
          ELSE /\ lib' = (lib \ {c}) \cup
                    {ClientCall(r, c.data, "returned", "")}
               /\ IF ResponseTokens(response[r]) # 0
                  THEN token_usage' =
                         Append(token_usage,
                                UsageRow("u1", c.data.model,
                                         ResponseTokens(response[r]),
                                         ResponseCost(response[r]),
                                         "chat", r))
                  ELSE UNCHANGED token_usage
  /\ UNCHANGED <<users, other, now>>
  /\ UNCHANGED_Requests

\* a request sent to /api/chat by another client
DirectReceive(r) ==
  /\ ClientCalls(r) = {}
  /\ Receive(r)

PluginNext ==
  \/ \E r \in Requests : ClientSend(r)
  \/ \E r \in Requests : ClientReceive(r)
  \/ \E r \in Requests : DirectReceive(r)
  \/ \E r \in Requests : ValidateUser(r)
  \/ \E r \in Requests : CheckPlan(r)
  \/ \E r \in Requests : AdmitUser(r)
  \/ \E r \in Requests : AdmitUsage(r)
  \/ \E r \in Requests : Dispatch(r)
  \/ \E r \in Requests : LogUsage(r)
  \/ \E r \in Requests : Respond(r)

SpecPlugin == Init /\ [][PluginNext]_vars

\* the rows written since the requests arrived
NewRows == {i \in 1..Len(token_usage) : token_usage[i].req # 0}

\* C15: the usage rows written never outnumber the provider dispatches that
\* succeeded, for each request and in all, whether the request came from
\* the plugin's sendChatMessage or from another client.
C15_AtMostOneRowPerDispatch ==
  /\ \A r \in Requests :
       Len(RowsOf(r)) <= (IF Has(r, "dispatch") THEN 1 ELSE 0)
  /\ Cardinality(NewRows)
       <= Cardinality({r \in Requests : Has(r, "dispatch")})

\* a call of sendChatMessage has ended on the answer of the server, and a
\* request of another client was dispatched and recorded
C15_Witness ==
  \E r1, r2 \in Requests :
    /\ \E c \in ClientCalls(r1) : c.at = "threw" /\ c.message = "HTTP"
    /\ Has(r2, "dispatch") /\ Len(RowsOf(r2)) = 1
    /\ response[r2].status = 200

\* ------------------------------------------ the monthly usage on its own
\* logTokenUsage, the clock and getMonthlyTokenUsage called directly; the
\* calls of getMonthlyTokenUsage made since the last insert are kept in lib,
\* numbered, with the month of the clock at the call.

\* the rows inserted: tokens and model of those of u1, and one of another
\* user
UsageRows ==
  [userId : {"u1"}, model : {"claude-3-haiku-20240307"}, tokens : {1, 4097}]
    \cup {[userId |-> "u2", model |-> "gpt-4.1", tokens |-> 1]}

UsageInit == CatalogInit

UsageInsert ==
  /\ Len(token_usage) < MaxRows
  /\ \E row \in UsageRows :
       token_usage' =
         Append(token_usage,
                UsageRow(row.userId, row.model, row.tokens,
                         calculateCost(row.model, row.tokens), "chat", 0))
  /\ lib' = {}
  /\ UNCHANGED <<users, other, now>>
  /\ UNCHANGED_Requests

UsageTick ==
  /\ now < MaxMonth
  /\ now' = now + 1
  /\ UNCHANGED <<users, other, token_usage, lib>>
  /\ UNCHANGED_Requests

\* a read that records itself as a row of usage
UsageGetMonthlyTokenUsage_Logged ==
  /\ Cardinality(lib) < MaxCalls
  /\ \E userId \in {"u1", "ghost"} :
       /\ lib' = lib \cup
            {[fn |-> "getMonthlyTokenUsage", n |-> Cardinality(lib) + 1,
              userId |-> userId, at |-> now,
              total_tokens |-> getMonthlyTokenUsage(userId),
              total_cost |-> getMonthlyCost(userId)]}
       /\ token_usage' =
            Append(token_usage,
                   UsageRow(userId, "gpt-4.1", 1, 0, "chat", 0))
  /\ UNCHANGED <<users, other, now>>
  /\ UNCHANGED_Requests

UsageGetMonthlyTokenUsage ==
  /\ Cardinality(lib) < MaxCalls
  /\ \E userId \in {"u1", "ghost"} :
       lib' = lib \cup
         {[fn |-> "getMonthlyTokenUsage", n |-> Cardinality(lib) + 1,
           userId |-> userId, at |-> now,
           total_tokens |-> getMonthlyTokenUsage(userId),
           total_cost |-> getMonthlyCost(userId)]}
  /\ UNCHANGED <<users, other, token_usage, now>>
  /\ UNCHANGED_Requests

UsageNext == UsageInsert \/ UsageTick \/ UsageGetMonthlyTokenUsage

SpecUsage == UsageInit /\ [][UsageNext]_vars

\* C16: within a month the total getMonthlyTokenUsage returns for a user
\* never decreases as rows are appended; when the clock enters the next
\* month the total is zero, and it counts the rows created in the month of
\* the clock only.
C16_MonotoneWithinMonth ==
  /\ [][\A userId \in DbUsers :
          /\ now' = now =>
               getMonthlyTokenUsage(userId)' >= getMonthlyTokenUsage(userId)
          /\ now' # now => getMonthlyTokenUsage(userId)' = 0]_vars
  /\ [](\A userId \in DbUsers :
          getMonthlyTokenUsage(userId) = C7_Sum(userId, Len(token_usage)))

\* the clock has entered the next month and the user has rows of both
\* months
C16_Witness ==
  /\ now > 1
  /\ \E i, j \in 1..Len(token_usage) :
       /\ token_usage[i].user_id = "u1" /\ token_usage[i].created_at < now
       /\ token_usage[j].user_id = "u1" /\ token_usage[j].created_at = now
  /\ getMonthlyTokenUsage("u1") > 0

\* the calls of getMonthlyTokenUsage for a user, in lib
UsageCalls(userId) ==
  {c \in lib : c.fn = "getMonthlyTokenUsage" /\ c.userId = userId}

Significand == 53

\* the exact operations work on 16 positions at a time
Chunk == 16

RECURSIVE Pow2(_)
Pow2(n) == IF n = 0 THEN 1 ELSE 2 * Pow2(n - 1)

MaxOf(S) == CHOOSE i \in S : \A j \in S : j <= i
MinOf(S) == CHOOSE i \in S : \A j \in S : i <= j

\* S + 2^pos: the 1 bits from pos up to the first 0 bit are cleared and
\* that bit is set
Increment(S, pos) ==
  LET zero == MinOf({i \in pos..(MaxOf(S \cup {pos}) + 1) : i \notin S})
  IN {i \in S : i < pos \/ i > zero} \cup {zero}

\* the double nearest to the number S, ties to even
Round(S) ==
  IF S = {} THEN {}
  ELSE LET lo == MaxOf(S) - (Significand - 1)
           kept == {i \in S : i >= lo}
           half == (lo - 1) \in S
           rest == \E i \in S : i < lo - 1
       IN IF half /\ (rest \/ lo \in S) THEN Increment(kept, lo) ELSE kept

\* the bits of the integer n (below 2^31), the lowest at position pos
IntBits(n, pos) == {pos + j : j \in {j \in 0..30 : (n \div Pow2(j)) % 2 = 1}}

\* the number of bits of the integer n
RECURSIVE BitLength(_)
BitLength(n) == IF n = 0 THEN 0 ELSE 1 + BitLength(n \div 2)

\* the bits of r / q (r < q <= 10000) below position pos, a chunk at a
\* time, until the quotient has two bits more than a significand (have:
\* the bits it has from its first 1 bit on); when a remainder is left
\* then, one more bit stands for what was left out
RECURSIVE FracBits(_, _, _, _)
FracBits(r, q, pos, have) ==
  IF r = 0 THEN {}
  ELSE IF have >= Significand + 2 THEN {pos - 1}
  ELSE LET digit == (r * Pow2(Chunk)) \div q
       IN IntBits(digit, pos - Chunk)
            \cup FracBits((r * Pow2(Chunk)) % q, q, pos - Chunk,
                          IF have > 0 THEN have + Chunk
                          ELSE BitLength(digit))

\* p / q of two integers as a double; also the double a decimal literal
\* p / q denotes
Quotient(p, q) ==
  Round(IntBits(p \div q, 0) \cup FracBits(p % q, q, 0, BitLength(p \div q)))

\* the value of the chunk of X + Y at position k: the bits of both there
RECURSIVE SumChunk(_, _, _, _)
SumChunk(X, Y, k, j) ==
  IF j < 0 THEN 0
  ELSE ((IF k + j \in X THEN 1 ELSE 0) + (IF k + j \in Y THEN 1 ELSE 0))
         * Pow2(j)
       + SumChunk(X, Y, k, j - 1)

\* the exact sum of two numbers, from position k up
RECURSIVE SumFrom(_, _, _, _, _)
SumFrom(X, Y, k, hi, carry) ==
  IF k > hi /\ carry = 0 THEN {}
  ELSE LET n == SumChunk(X, Y, k, Chunk - 1) + carry
       IN IntBits(n % Pow2(Chunk), k)
            \cup SumFrom(X, Y, k + Chunk, hi, n \div Pow2(Chunk))

\* x + y of two doubles
Plus(X, Y) ==
  IF X = {} THEN Y
  ELSE IF Y = {} THEN X
  ELSE Round(SumFrom(X, Y, MinOf(X \cup Y), MaxOf(X \cup Y), 0))

\* the value of the chunk of X * Y at position k: for each position, the
\* pairs of bits whose product lands there
RECURSIVE ProductChunk(_, _, _, _)
ProductChunk(X, Y, k, j) ==
  IF j < 0 THEN 0
  ELSE Cardinality({i \in X : (k + j - i) \in Y}) * Pow2(j)
       + ProductChunk(X, Y, k, j - 1)

\* the exact product of two numbers, from position k up
RECURSIVE ProductFrom(_, _, _, _, _)
ProductFrom(X, Y, k, hi, carry) ==
  IF k > hi /\ carry = 0 THEN {}
  ELSE LET n == ProductChunk(X, Y, k, Chunk - 1) + carry
       IN IntBits(n % Pow2(Chunk), k)
            \cup ProductFrom(X, Y, k + Chunk, hi, n \div Pow2(Chunk))

\* x * y of two doubles
Times(X, Y) ==
  IF X = {} \/ Y = {} THEN {}
  ELSE Round(ProductFrom(X, Y, MinOf(X) + MinOf(Y), MaxOf(X) + MaxOf(Y), 0))

\* costPer1k[model] || 0.01 as the double its literal denotes
RateDouble(model) == Quotient(RatePer1k(model), 10000)

\* (tokens / 1000) * rate as the code computes it
calculateCostDouble(model, tokens) ==
  Times(Quotient(tokens, 1000), RateDouble(model))

\* the calls of calculateCost: a model of each rate family, one that is not
\* in the table, and the token counts a and b of two calls
CostModels == {"gpt-4", "gpt-4.1", "claude-3-haiku-20240307", "llama-3"}
MaxTokens == 3
CostTokens == 0..MaxTokens \cup {4097}

\* calculateCost(model, a), calculateCost(model, b) and
\* calculateCost(model, a + b)
LibraryCalculateCost ==
  /\ lib = {}
  /\ \E model \in CostModels, a \in CostTokens, b \in CostTokens :
       lib' = {[fn |-> "calculateCost", model |-> model, a |-> a, b |-> b,
                cost_a |-> calculateCostDouble(model, a),
                cost_b |-> calculateCostDouble(model, b),
                cost_ab |-> calculateCostDouble(model, a + b)]}
  /\ UNCHANGED <<users, other, token_usage, now>>
  /\ UNCHANGED_Requests

\* the model ids of the rate table
RatedModels ==
  {"gpt-4", "gpt-4-turbo", "gpt-4o", "gpt-4.1", "gpt-3.5-turbo",
   "claude-3-opus-20240229", "claude-3-sonnet-20240229",
   "claude-3-haiku-20240307", "claude-3.5-sonnet", "claude-4-sonnet",
   "claude-4.1-opus", "claude-3.7-sonnet", "gemini-pro", "gemini-1.5-pro",
   "gemini-2.5-pro"}

\* C18: calculateCost is 0 for 0 tokens, uses the default rate 0.01 for a
\* model that is not in the rate table, and is additive in the tokens:
\* calculateCost(m, a + b) = calculateCost(m, a) + calculateCost(m, b).
C18_CostIsLinear ==
  \A c \in lib :
    c.fn = "calculateCost" =>
      /\ c.a = 0 => c.cost_a = {}
      /\ c.model \notin RatedModels =>
           c.cost_a = Times(Quotient(c.a, 1000), Quotient(1, 100))
      /\ Plus(c.cost_a, c.cost_b) = c.cost_ab



\* the lengths of the prompts of the calls of estimateTokenUsage, and of
\* what JSON.stringify adds for the context (2: selectedFrames is [])
MaxPromptLen == 16
PromptLengths == 1..MaxPromptLen \cup {100}
ContextLengths == {0, 2}

LibraryEstimateTokenUsage ==
  /\ lib = {}
  /\ \E promptLen \in PromptLengths, contextLen \in ContextLengths :
       lib' = {[fn |-> "estimateTokenUsage", promptLen |-> promptLen,
                contextLen |-> contextLen,
                value |-> estimateTokenUsage(promptLen, contextLen)]}
  /\ UNCHANGED <<users, other, token_usage, now>>
  /\ UNCHANGED_Requests

\* C19 as claimed: the estimate is ceil(promptChars / 4) * 1.5, promptChars
\* being the length of the prompt (twice the estimate is three times the
\* quarter of the length rounded up).
C19_EstimateIsCeilTimesFactor ==
  \A c \in lib :
    c.fn = "estimateTokenUsage" =>
      2 * c.value = 3 * CeilDiv(c.promptLen, 4)

\* C19 as amended: the estimate is ceil((chars / 4) * 1.5), the least
\* integer not below three eighths of chars, chars being the length of the
\* prompt plus that of the JSON text of the context fields.
C19_EstimateIsCeilOfProduct ==
  \A c \in lib :
    c.fn = "estimateTokenUsage" =>
      /\ 8 * c.value >= 3 * (c.promptLen + c.contextLen)
      /\ 8 * (c.value - 1) < 3 * (c.promptLen + c.contextLen)

\* the estimate of a prompt of 100 characters, and one with a context
C19_Witness ==
  \E c \in lib :
    /\ c.fn = "estimateTokenUsage"
    /\ \/ c.promptLen = 100 /\ c.contextLen = 0 /\ c.value = 38
       \/ c.promptLen = 1 /\ c.contextLen = 2 /\ c.value = 2



\* the model ids of the calls of routeModelRequest: the ids of the plugin's
\* catalog, ids of the server's rules, and two ids of the form
\* provider/name that are in neither
RouteModels ==
  UNION {ModelTiers(t) : t \in Tiers}
    \cup {"gpt-4.1", "claude-3-haiku-20240307", "gemini-pro"}
    \cup {"openai/o1-mini", "azure/gpt-4o"}

LibraryRouteModelRequest ==
  /\ lib = {}
  /\ \E model \in RouteModels :
       \E up \in UpstreamsOf(ProviderOf(model)) :
         lib' = {[fn |-> "routeModelRequest", model |-> model,
                  adapter |-> ProviderOf(model),
                  calls |-> IF ProviderOf(model) = Null THEN 0 ELSE 1,
                  result |-> routeModelRequest(model, 100, up)]}
  /\ UNCHANGED <<users, other, token_usage, now>>
  /\ UNCHANGED_Requests

\* the id has the form provider/name
Namespaced(model) == \E i \in 1..Len(Spell(model)) : Spell(model)[i] = "/"

\* the stem occurs in the id, at some position
HasStem(model, stem) ==
  \E i \in 1..Len(Spell(model)) :
    /\ i + Len(Spell(stem)) - 1 <= Len(Spell(model))
    /\ \A k \in 1..Len(Spell(stem)) :
         Spell(model)[i + k - 1] = Spell(stem)[k]

\* the call ended in the unsupported-model error
Unsupported(c) ==
  /\ ~ c.result.ok
  /\ c.result.message[1] = "Unsupported model: "
  /\ c.calls = 0

StoredPlans ==
  {"BASIC", "MAX", "BEAST", "basic", "max", "beast", "Max", "Beast", Null}

\* String.prototype.toUpperCase on the plan names
ToUpperCase(s) ==
  CASE s \in {"BASIC", "basic", "Basic"} -> "BASIC"
    [] s \in {"MAX", "max", "Max"} -> "MAX"
    [] s \in {"BEAST", "beast", "Beast"} -> "BEAST"

\* loadUserData: userProfile.plan?.toUpperCase() || 'BASIC'
loadUserData(storedPlan) ==
  [plan |-> IF storedPlan = Null THEN "BASIC" ELSE ToUpperCase(storedPlan)]

\* the tier a model id gets in availableModels: the first of Basic, Max,
\* Beast, Ultimate whose list holds it
TierOf(modelId) ==
  CASE modelId \in ModelTiers("Basic") -> "Basic"
    [] modelId \in ModelTiers("Max") -> "Max"
    [] modelId \in ModelTiers("Beast") -> "Beast"
    [] OTHER -> "Ultimate"

\* const tierOrder = { Basic: 0, Max: 1, Beast: 2, Ultimate: 3 }
tierOrder == [Basic |-> 0, Max |-> 1, Beast |-> 2, Ultimate |-> 3]

\* tierOrder[user.plan] || 0 (undefined for a plan that is no key)
userTierLevel(plan) ==
  IF plan \in DOMAIN tierOrder THEN tierOrder[plan] ELSE 0

\* canUseModel(model) for the user of the AuthContext (<< >>: null, no
\* user signed in)
canUseModel(user, tier) ==
  IF user = << >> THEN tier = "Basic"
  ELSE tierOrder[tier] <= userTierLevel(user[1].plan)

\* every model id of the plugin's catalog
CatalogModels == UNION {ModelTiers(t) : t \in Tiers}

LibraryCanUseModel ==
  /\ lib = {}
  /\ \E signedIn \in BOOLEAN, storedPlan \in StoredPlans,
        model \in CatalogModels :
       lib' = {[fn |-> "canUseModel", signedIn |-> signedIn,
                storedPlan |-> storedPlan, model |-> model,
                tier |-> TierOf(model),
                value |-> IF signedIn
                          THEN canUseModel(<<loadUserData(storedPlan)>>,
                                           TierOf(model))
                          ELSE canUseModel(<< >>, TierOf(model))]}
  /\ UNCHANGED <<users, other, token_usage, now>>
  /\ UNCHANGED_Requests

\* the rank of a stored plan in Basic < Max < Beast < Ultimate, whatever
\* its letter case (a missing plan is Basic)
StoredRank(storedPlan) ==
  CASE storedPlan \in {"MAX", "max", "Max"} -> 1
    [] storedPlan \in {"BEAST", "beast", "Beast"} -> 2
    [] OTHER -> 0

\* C25: for a signed-in user canUseModel(m) is true exactly when the tier
\* of m is at most the plan of the user in Basic < Max < Beast < Ultimate,
\* whatever the letter case the plan is stored in; with no user signed in
\* exactly the Basic tier is usable.
C25_UsableUpToPlan ==
  \A c \in lib :
    c.fn = "canUseModel" =>
      IF c.signedIn
      THEN c.value <=> (PlanRank(c.tier) <= StoredRank(c.storedPlan))
      ELSE c.value <=> (c.tier = "Basic")

LibraryNext ==
  \/ LibraryIsModelAllowed
  \/ LibraryWithinLimit
  \/ LibraryCalculateCost
  \/ LibraryEstimateTokenUsage
  \/ LibraryRouteModelRequest
  \/ LibraryCanUseModel

SpecLibrary == LibraryInit /\ [][LibraryNext]_vars

\* ------------------------------------------------ what an error response tells

\* C21: the response to a request whose provider call failed carries the
\* upstream error message only when the process runs in development mode;
\* otherwise it carries the service-unavailable message alone.
C21_DetailOnlyInDevelopment ==
  \A r \in Requests :
    (Has(r, "dispatch_threw") /\ ProviderOf(body[r].model) # Null
       /\ env # "development")
      => /\ response[r].error = "AI service temporarily unavailable"
         /\ "details" \notin DOMAIN response[r]

\* ------------------------------------------- every request gets its response
\* The handler with its awaits settled: a database call or a provider call
\* that was made returns or throws, so the step of a request that is past
\* its arrival is taken.

\* the ledger leaves u1, on BASIC, room for one more estimate
LiveInit ==
  /\ Init
  /\ users["u1"] = "BASIC"
  /\ getMonthlyTokenUsage("u1") = BasicLimit - estimateTokenUsage(100, 0)

\* the step of request r that follows an await
Step(r) ==
  \/ ValidateUser(r)
  \/ CheckPlan(r)
  \/ AdmitUser(r)
  \/ AdmitUsage(r)
  \/ Dispatch(r)
  \/ LogUsage(r)
  \/ Respond(r)

\* the requests that arrive: one model the plan allows and one it does not
LiveModels == {"", "gpt-4.1", "openai/gpt-4o"}

LiveReceive(r) ==
  /\ Receive(r)
  /\ body'[r].model \in LiveModels

LiveNext ==
  \/ \E r \in Requests : LiveReceive(r)
  \/ \E r \in Requests : Step(r)

SpecLive ==
  /\ LiveInit
  /\ [][LiveNext]_vars
  /\ \A r \in Requests : WF_vars(Step(r))

\* the statuses of the handler
Statuses == {405, 400, 404, 403, 429, 200, 502, 500}

\* the statuses with which a request fails
Failures == Statuses \ {200}

\* C22: every request that arrived is eventually answered, with a status
\* among 405, 400, 404, 403, 429, 200, 502 and 500; the response of a
\* request is sent once and never changes; a request that failed has written
\* no usage row, and the step at which it failed changed neither a table nor
\* anything of another request.
C22_EveryRequestAnswered ==
  /\ \A r \in Requests :
       (pc[r] # "idle") ~> (pc[r] = "done" /\ response[r].status \in Statuses)
  /\ [][\A r \in Requests :
          /\ response[r].status # 0 => response'[r] = response[r]
          /\ (response[r].status = 0 /\ response'[r].status \in Failures) =>
               /\ users' = users
               /\ token_usage' = token_usage
               /\ \A r2 \in Requests \ {r} :
                    /\ pc'[r2] = pc[r2]
                    /\ local'[r2] = local[r2]
                    /\ modelResponse'[r2] = modelResponse[r2]
                    /\ response'[r2] = response[r2]]_vars
  /\ [](\A r \in Requests :
          /\ pc[r] = "done" <=> response[r].status # 0
          /\ response[r].status \in Failures => RowsOf(r) = << >>)

\* one request failed in its provider call and another, of the same user,
\* was answered 200 after it
C22_Witness ==
  \E r1, r2 \in Requests :
    /\ response[r1].status = 502
    /\ response[r2].status = 200
    /\ body[r1].userId = body[r2].userId

\* --------------------------------------------- lib/auth.ts: the rate limiter
\* One limiter made by rateLimit(windowMs, max), called for each arriving
\* request; a call is synchronous, so it is one step. Every call is kept in
\* lib, numbered, with the ip it was counted under, the time of the clock
\* and whether it was passed on to next(). The clock does not run backwards.

\* the parameters of rateLimit (defaults 60000 and 100), the calls made and
\* the time the clock runs to
windowMs == 3
max == 2
MaxArrivals == 4
MaxClock == 4

\* the requests that arrive: through a proxy that names the client in
\* x-forwarded-for, or directly
Arrivals ==
  {[forwarded |-> "ip1", remoteAddress |-> "proxy"],
   [forwarded |-> Null, remoteAddress |-> "ip1"],
   [forwarded |-> "ip2", remoteAddress |-> "proxy"]}

\* req.headers['x-forwarded-for'] || req.connection.remoteAddress
IpOf(req) ==
  IF req.forwarded # Null THEN req.forwarded ELSE req.remoteAddress

\* requests.get(ip), after requests.set(ip, []) for an ip not yet in the Map
userRequests(ip) == IF ip \in DOMAIN requests THEN requests[ip] ELSE << >>

\* userRequests.filter(time => time > windowStart), windowStart = now - windowMs
recentRequests(ip) ==
  SelectSeq(userRequests(ip), LAMBDA time : time > clock - windowMs)

\* a limiter that lets one request more through
Limited_Above(recent) == Len(recent) > max

\* recentRequests.length >= max
Limited(recent) == Len(recent) >= max

\* requests.set(ip, list)
MapSet(ip, list) ==
  [k \in DOMAIN requests \cup {ip} |-> IF k = ip THEN list ELSE requests[k]]

RateLimitCall(req, passed) ==
  [fn |-> "rateLimit", n |-> Cardinality(lib) + 1, ip |-> IpOf(req),
   at |-> clock, passed |-> passed,
   status |-> IF passed THEN 0 ELSE 429]

\* the middleware is called with a request
RateLimit ==
  /\ Cardinality(lib) < MaxArrivals
  /\ \E req \in Arrivals :
       IF Limited(recentRequests(IpOf(req)))
       THEN /\ requests' = MapSet(IpOf(req), userRequests(IpOf(req)))
            /\ lib' = lib \cup {RateLimitCall(req, FALSE)}
       ELSE /\ requests' =
                 MapSet(IpOf(req), Append(recentRequests(IpOf(req)), clock))
            /\ lib' = lib \cup {RateLimitCall(req, TRUE)}
  /\ UNCHANGED <<users, token_usage, now, env, subscriptions, webhook, clock>>
  /\ UNCHANGED_Requests

\* a millisecond passes
RateLimitTick ==
  /\ clock < MaxClock
  /\ clock' = clock + 1
  /\ UNCHANGED <<users, token_usage, now, env, subscriptions, webhook,
                 requests, lib>>
  /\ UNCHANGED_Requests

RateLimitInit == CatalogInit

RateLimitNext == RateLimit \/ RateLimitTick

SpecRateLimit == RateLimitInit /\ [][RateLimitNext]_vars

\* the calls of the limiter, and those passed on for an ip in the windowMs
\* that end at time t
LimiterCalls == {c \in lib : c.fn = "rateLimit"}

PassedIn(ip, t) ==
  {c \in LimiterCalls : c.passed /\ c.ip = ip /\ c.at > t - windowMs /\ c.at <= t}

\* C23: among the requests of one ip passed on to next(), at most max fall
\* in any window of windowMs milliseconds (one that ends at t and starts
\* after t - windowMs); a request is answered 429, and not passed on, exactly
\* when max requests of its ip passed on before it lie in the windowMs that
\* end at its arrival.
C23_AtMostMaxPerWindow ==
  /\ \A ip \in {IpOf(req) : req \in Arrivals}, t \in 0..(MaxClock + windowMs) :
       Cardinality(PassedIn(ip, t)) <= max
  /\ \A c \in LimiterCalls :
       /\ c.passed <=> c.status # 429
       /\ ~ c.passed <=>
            Cardinality({p \in PassedIn(c.ip, c.at) : p.n < c.n}) >= max

\* a request was answered 429 and a later one of the same ip was passed on
\* once the window had moved on
C23_Witness ==
  \E c1, c2 \in LimiterCalls :
    /\ c1.ip = c2.ip /\ c1.n < c2.n
    /\ ~ c1.passed /\ c2.passed
    /\ Cardinality({p \in LimiterCalls : p.passed /\ p.ip = c1.ip}) > max

\* ------------------------------------------------- lib/auth.ts: requireAuth
\* A call of a handler wrapped by requireAuth, kept in lib with the request,
\* the environment, what the database did and how the call ended.

\* the secret the tokens of the service are signed with when JWT_SECRET is
\* set, and the one used when it is not
FallbackSecret == "fallback-secret-for-dev"
JwtSecrets == {Null, "s3cret"}

\* process.env.JWT_SECRET || 'fallback-secret-for-dev'
SecretOf(jwtSecret) == IF jwtSecret # Null THEN jwtSecret ELSE FallbackSecret

\* tokens: a JWT with the userId of its payload (Null: a payload without
\* one), the key it was signed with and whether it has expired; the empty
\* string; a string that is no JWT
Jwt(userId, key, expired) ==
  [form |-> "jwt", userId |-> userId, key |-> key, expired |-> expired]

Jwts ==
  {Jwt(userId, key, FALSE) :
     userId \in {"u1", "ghost"}, key \in {"s3cret", FallbackSecret}}
    \cup {Jwt("u1", "s3cret", TRUE), Jwt("u1", "forged", FALSE),
          Jwt(Null, "s3cret", FALSE)}

Empty == [form |-> "empty", userId |-> Null, key |-> Null, expired |-> FALSE]
Garbage ==
  [form |-> "garbage", userId |-> Null, key |-> Null, expired |-> FALSE]

\* a JWT of u1 in date, signed with the secret
GoodJwt == Jwt("u1", "s3cret", FALSE)

\* an Authorization header: what stands before its first space, and the
\* parts that follow, each after one space
Header(scheme, rest) == [scheme |-> scheme, rest |-> rest]

\* the headers of the requests: none, the Bearer form with each token, other
\* schemes, a header without a token, one with two spaces, and one with a
\* trailing part
AuthHeaders ==
  {Header(Null, << >>), Header("Bearer", << >>),
   Header("Basic", <<GoodJwt>>), Header("bearer", <<GoodJwt>>),
   Header("Bearer", <<Empty, GoodJwt>>), Header("Bearer", <<Garbage>>),
   Header("Bearer", <<GoodJwt, Garbage>>)}
    \cup {Header("Bearer", <<t>>) : t \in Jwts}

\* !authHeader || !authHeader.startsWith('Bearer ')
MissingOrInvalid(authHeader) ==
  \/ authHeader.scheme # "Bearer"
  \/ authHeader.rest = << >>

\* authHeader.split(' ')[1]
TokenOf(authHeader) == authHeader.rest[1]

\* a check that decodes the token without verifying it
Verifies_DecodeOnly(token, secret) == token.form = "jwt"

\* jwt.verify(token, secret) returns the payload (it throws otherwise)
Verifies(token, secret) ==
  /\ token.form = "jwt"
  /\ token.key = secret
  /\ ~ token.expired

\* authenticateUser(req), with what the query of getUserById does
authenticateUser(authHeader, jwtSecret, db) ==
  IF MissingOrInvalid(authHeader)
  THEN [error |-> "Missing or invalid authorization header", user |-> << >>]
  ELSE IF ~ Verifies(TokenOf(authHeader), SecretOf(jwtSecret))
  THEN [error |-> "Invalid or expired token", user |-> << >>]
  ELSE IF db = "throws"
  THEN [error |-> "Authentication failed", user |-> << >>]
  ELSE IF getUserById(TokenOf(authHeader).userId) = << >>
  THEN [error |-> "User not found", user |-> << >>]
  ELSE [error |-> Null, user |-> getUserById(TokenOf(authHeader).userId)]

\* the function requireAuth(handler) returns, called with a request: the
\* 401 when authenticateUser returned an error, the call of the handler
\* with req.user otherwise
RequireAuth ==
  /\ Cardinality(lib) < MaxCalls
  /\ \E authHeader \in AuthHeaders, jwtSecret \in JwtSecrets,
        db \in {"returns", "throws"} :
       LET auth == authenticateUser(authHeader, jwtSecret, db) IN
         lib' = lib \cup
           {[fn |-> "requireAuth", authorization |-> authHeader,
             jwtSecret |-> jwtSecret, db |-> db,
             status |-> IF auth.error # Null THEN 401 ELSE 0,
             error |-> auth.error,
             invoked |-> auth.error = Null,
             user |-> auth.user]}
  /\ UNCHANGED <<users, other, token_usage, now>>
  /\ UNCHANGED_Requests

AuthInit == CatalogInit

AuthNext == RequireAuth

SpecAuth == AuthInit /\ [][AuthNext]_vars

AuthCalls == {c \in lib : c.fn = "requireAuth"}

\* the request carries a Bearer token: the scheme, a space, the token
CarriesBearer(c) ==
  /\ c.authorization.scheme = "Bearer"
  /\ Len(c.authorization.rest) >= 1

\* the token the request carries
Carried(c) == c.authorization.rest[1]

\* the token is a JWT in date, signed with the secret of the process
TokenVerifies(c) ==
  /\ Carried(c) \in Jwts
  /\ ~ Carried(c).expired
  /\ Carried(c).key =
       (IF c.jwtSecret = Null THEN FallbackSecret ELSE c.jwtSecret)

\* C24: the wrapped handler is invoked only when the request carries a
\* Bearer token that verifies and whose userId names an existing user, and
\* then with that user; in every other case, and when the lookup of the user
\* fails, the response is 401 and the handler is not invoked.
C24_HandlerOnlyWhenAuthenticated ==
  \A c \in AuthCalls :
    /\ c.invoked =>
         /\ CarriesBearer(c) /\ TokenVerifies(c)
         /\ Carried(c).userId \in DOMAIN users
         /\ c.user # << >> /\ c.user[1].id = Carried(c).userId
         /\ c.status # 401
    /\ ~ (CarriesBearer(c) /\ TokenVerifies(c)
            /\ Carried(c).userId \in DOMAIN users
            /\ c.db = "returns")
         => (c.status = 401 /\ ~ c.invoked)
    /\ c.invoked \/ c.status = 401

\* the handler was invoked for one request and refused to one whose token
\* was signed with another key
C24_Witness ==
  \E c1, c2 \in AuthCalls :
    /\ c1.invoked /\ c1.user[1].id = "u1"
    /\ ~ c2.invoked /\ c2.status = 401
    /\ CarriesBearer(c2) /\ Carried(c2).key = "forged"

\* ------------------------------------------- api/stripe/webhook.ts and the
\* subscription helpers of lib/db.ts
\* A delivery of the webhook endpoint is one asynchronous task, like a chat
\* request: it advances by one call of the database or of the Stripe API per
\* step, and deliveries interleave at those calls. webhook[d] holds the
\* event, the await the handler is at, its locals (the status and plan to
\* write, the email and the user found), the status of the response and how
\* the event handler ended: "applied" (it ran to its end), "skipped" (it
\* returned early), "failed" (its catch block logged an error).

\* status VARCHAR(20) CHECK (status IN (...)) of table subscriptions
SubscriptionStatuses == {"active", "canceled", "past_due", "incomplete"}

\* a Stripe.Subscription: its id, its status, metadata.plan and the id of
\* the price of its first item ("" for a missing one)
StripeSubscription(id, status, metadataPlan, priceId) ==
  [id |-> id, status |-> status, metadataPlan |-> metadataPlan,
   priceId |-> priceId]

\* the states Stripe reports of subscription sub_1: active or past due on
\* the MAX plan, and in trial on the BEAST plan
StripeSubscriptions ==
  {StripeSubscription("sub_1", "active", "MAX", ""),
   StripeSubscription("sub_1", "past_due", "", "price_max_monthly"),
   StripeSubscription("sub_1", "trialing", "beast", "price_premium")}

\* the events delivered: the subscription events with the subscription as
\* their object, the deletion of a subscription that has no row, an invoice
\* with its subscription, and an event the switch has no case for
StripeEvents ==
  {[type |-> type, object |-> s] :
     type \in {"customer.subscription.created",
               "customer.subscription.updated"},
     s \in StripeSubscriptions}
    \cup {[type |-> "customer.subscription.deleted",
           object |-> StripeSubscription(id, "canceled", "MAX", "")] :
            id \in {"sub_1", "sub_2"}}
    \cup {[type |-> "invoice.payment_succeeded",
           object |-> StripeSubscription("sub_1", "", "", "")],
          [type |-> "invoice.payment_failed",
           object |-> StripeSubscription("", "", "", "")]}

\* the requests the endpoint receives: the signed events, an event whose
\* signature does not verify, and a GET
WebhookRequests ==
  [method : {"POST"}, signed : {TRUE}, event : StripeEvents]
    \cup {[method |-> "POST", signed |-> FALSE,
           event |-> [type |-> "customer.subscription.deleted",
                      object |-> StripeSubscription("sub_1", "canceled",
                                                    "MAX", "")]],
          [method |-> "GET", signed |-> FALSE,
           event |-> [type |-> "",
                      object |-> StripeSubscription("", "", "", "")]]}

getPlanFromSubscription(subscription) ==
  IF subscription.metadataPlan \in {"BASIC", "MAX", "BEAST"}
  THEN subscription.metadataPlan
  ELSE IF subscription.priceId # ""
          /\ (Includes(Spell(subscription.priceId), Spell("beast"))
                \/ Includes(Spell(subscription.priceId), Spell("premium")))
  THEN "BEAST"
  ELSE IF subscription.priceId # ""
          /\ (Includes(Spell(subscription.priceId), Spell("max"))
                \/ Includes(Spell(subscription.priceId), Spell("pro")))
  THEN "MAX"
  ELSE "BASIC"

\* the email of the customer of the subscriptions: that of user u1 (a user
\* is named by its email here)
CustomerEmail == "u1"

\* SELECT * FROM users WHERE email = email
getUserByEmail(email) ==
  IF email \in DOMAIN users THEN <<[id |-> email, plan |-> users[email]]>>
  ELSE << >>

\* the delivery goes on to its next await
HookGoto(d, label, fields) ==
  webhook' = [webhook EXCEPT ![d] = [fields EXCEPT !.pc = label]]

\* the event handler has ended and the response is sent
HookAnswer(d, status, outcome) ==
  webhook' = [webhook EXCEPT ![d] =
                [@ EXCEPT !.pc = "done", !.status = status,
                          !.outcome = outcome]]

\* the state no step of the webhook writes
UNCHANGED_Hook ==
  /\ UNCHANGED <<token_usage, now, lib, env, requests, clock>>
  /\ UNCHANGED_Requests

\* a delivery arrives: the method check, buffer(req), constructEvent and the
\* switch up to the first await of the event handler
Deliver(d) ==
  /\ webhook[d].pc = "idle"
  /\ \E req \in WebhookRequests :
       LET arrived ==
             [pc |-> "idle", status |-> 0, method |-> req.method,
              signed |-> req.signed, type |-> req.event.type,
              id |-> req.event.object.id,
              newStatus |-> req.event.object.status,
              plan |-> getPlanFromSubscription(req.event.object),
              userId |-> Null, outcome |-> ""]
           ended(status, outcome) ==
             webhook' = [webhook EXCEPT ![d] =
                           [arrived EXCEPT !.pc = "done", !.status = status,
                                           !.outcome = outcome]]
       IN IF req.method # "POST" THEN ended(405, "")
          ELSE \/ ended(500, "")
               \/ IF ~ req.signed THEN ended(400, "")
                  ELSE CASE req.event.type = "customer.subscription.created" ->
                              HookGoto(d, "customers.retrieve", arrived)
                         [] req.event.type = "customer.subscription.updated" ->
                              HookGoto(d, "updateSubscriptionStatus", arrived)
                         [] req.event.type = "customer.subscription.deleted" ->
                              HookGoto(d, "updateSubscriptionStatus",
                                       [arrived EXCEPT !.newStatus = "canceled",
                                                       !.plan = "BASIC"])
                         [] req.event.type = "invoice.payment_succeeded"
                              /\ req.event.object.id # "" ->
                              HookGoto(d, "subscriptions.retrieve", arrived)
                         [] OTHER -> ended(200, "applied")
  /\ UNCHANGED <<users, subscriptions>>
  /\ UNCHANGED_Hook

\* handleSubscriptionCreated: await stripe.customers.retrieve(customerId)
RetrieveCustomer(d) ==
  /\ webhook[d].pc = "customers.retrieve"
  /\ \/ HookGoto(d, "getUserByEmail", webhook[d])
     \/ HookAnswer(d, 200, "skipped")
     \/ HookAnswer(d, 200, "failed")
  /\ UNCHANGED <<users, subscriptions>>
  /\ UNCHANGED_Hook

\* handleSubscriptionCreated: await getUserByEmail(customer.email)
FindUser(d) ==
  /\ webhook[d].pc = "getUserByEmail"
  /\ \/ \E email \in {CustomerEmail, "nobody"} :
          IF getUserByEmail(email) = << >>
          THEN HookAnswer(d, 200, "skipped")
          ELSE HookGoto(d, "createSubscription",
                        [webhook[d] EXCEPT
                           !.userId = getUserByEmail(email)[1].id])
     \/ HookAnswer(d, 200, "failed")
  /\ UNCHANGED <<users, subscriptions>>
  /\ UNCHANGED_Hook

\* createSubscription: the INSERT INTO subscriptions; it throws for an id
\* that has a row (UNIQUE) and for a status the CHECK refuses
InsertSubscription(d) ==
  /\ webhook[d].pc = "createSubscription"
  /\ \/ IF webhook[d].id \in DOMAIN subscriptions
           \/ webhook[d].newStatus \notin SubscriptionStatuses
        THEN /\ HookAnswer(d, 200, "failed")
             /\ UNCHANGED subscriptions
        ELSE /\ subscriptions' =
                  [id \in DOMAIN subscriptions \cup {webhook[d].id} |->
                     IF id = webhook[d].id
                     THEN [user_id |-> webhook[d].userId,
                           plan |-> webhook[d].plan,
                           status |-> webhook[d].newStatus]
                     ELSE subscriptions[id]]
             /\ HookGoto(d, "updateUserPlan", webhook[d])
     \/ /\ HookAnswer(d, 200, "failed")
        /\ UNCHANGED subscriptions
  /\ UNCHANGED users
  /\ UNCHANGED_Hook

\* handlePaymentSucceeded: await stripe.subscriptions.retrieve(...), which
\* returns the subscription as Stripe has it now
RetrieveSubscription(d) ==
  /\ webhook[d].pc = "subscriptions.retrieve"
  /\ \/ \E s \in {s \in StripeSubscriptions : s.id = webhook[d].id} :
          HookGoto(d, "updateSubscriptionStatus",
                   [webhook[d] EXCEPT !.newStatus = s.status,
                                      !.plan = getPlanFromSubscription(s)])
     \/ HookAnswer(d, 200, "failed")
  /\ UNCHANGED <<users, subscriptions>>
  /\ UNCHANGED_Hook

\* updateSubscriptionStatus: the UPDATE subscriptions SET status; it throws
\* for a status the CHECK refuses, and changes nothing when no row has the id
UpdateSubscription(d) ==
  /\ webhook[d].pc = "updateSubscriptionStatus"
  /\ \/ IF webhook[d].id \in DOMAIN subscriptions
           /\ webhook[d].newStatus \notin SubscriptionStatuses
        THEN /\ HookAnswer(d, 200, "failed")
             /\ UNCHANGED subscriptions
        ELSE /\ subscriptions' =
                  [id \in DOMAIN subscriptions |->
                     IF id = webhook[d].id
                     THEN [subscriptions[id] EXCEPT
                             !.status = webhook[d].newStatus]
                     ELSE subscriptions[id]]
             /\ HookGoto(d, "selectUserId", webhook[d])
     \/ /\ HookAnswer(d, 200, "failed")
        /\ UNCHANGED subscriptions
  /\ UNCHANGED users
  /\ UNCHANGED_Hook

\* updateSubscriptionStatus: SELECT user_id FROM subscriptions WHERE the id
\* matches, and if (rows[0])
SelectOwner(d) ==
  /\ webhook[d].pc = "selectUserId"
  /\ \/ IF webhook[d].id \in DOMAIN subscriptions
        THEN HookGoto(d, "updateUserPlan",
                      [webhook[d] EXCEPT
                         !.userId = subscriptions[webhook[d].id].user_id])
        ELSE HookAnswer(d, 200, "skipped")
     \/ HookAnswer(d, 200, "failed")
  /\ UNCHANGED <<users, subscriptions>>
  /\ UNCHANGED_Hook

\* updateUserPlan: UPDATE users SET plan WHERE id = userId, the last call of
\* createSubscription and of updateSubscriptionStatus
UpdateUserPlan(d) ==
  /\ webhook[d].pc = "updateUserPlan"
  /\ \/ /\ users' = [users EXCEPT ![webhook[d].userId] = webhook[d].plan]
        /\ HookAnswer(d, 200, "applied")
     \/ /\ HookAnswer(d, 200, "failed")
        /\ UNCHANGED users
  /\ UNCHANGED subscriptions
  /\ UNCHANGED_Hook

\* the tables when the deliveries arrive: u1 on BASIC without a
\* subscription, or on MAX with the active subscription sub_1
WebhookInit ==
  /\ now = 1
  /\ lib = {}
  /\ InitRequests
  /\ token_usage = << >>
  /\ env = "production"
  /\ webhook = [d \in Deliveries |-> NoDelivery]
  /\ requests = << >>
  /\ clock = 0
  /\ \/ /\ users = [u \in DbUsers |-> "BASIC"]
        /\ subscriptions = << >>
     \/ /\ users = [u \in DbUsers |-> IF u = "u1" THEN "MAX" ELSE "BASIC"]
        /\ subscriptions =
             [id \in {"sub_1"} |->
                [user_id |-> "u1", plan |-> "MAX", status |-> "active"]]

WebhookNext ==
  \/ \E d \in Deliveries : Deliver(d)
  \/ \E d \in Deliveries : RetrieveCustomer(d)
  \/ \E d \in Deliveries : FindUser(d)
  \/ \E d \in Deliveries : InsertSubscription(d)
  \/ \E d \in Deliveries : RetrieveSubscription(d)
  \/ \E d \in Deliveries : UpdateSubscription(d)
  \/ \E d \in Deliveries : SelectOwner(d)
  \/ \E d \in Deliveries : UpdateUserPlan(d)

SpecWebhook == WebhookInit /\ [][WebhookNext]_vars


\* ------------------------------------------------------------------ C26
\* the delivery d has just been answered 200 for a signed event of the type
Processed(d, type) ==
  /\ webhook[d].pc # "done"
  /\ webhook'[d].pc = "done"
  /\ webhook'[d].status = 200
  /\ webhook'[d].signed
  /\ webhook'[d].type = type

\* C26: once the webhook has processed a customer.subscription.deleted
\* event for a subscription that has a row, that row has status 'canceled'
\* and the plan of the user owning it is BASIC.
C26_DeletedCancelsAndDowngrades ==
  [][\A d \in Deliveries :
       (Processed(d, "customer.subscription.deleted")
          /\ webhook'[d].id \in DOMAIN subscriptions')
         => /\ subscriptions'[webhook'[d].id].status = "canceled"
            /\ users'[subscriptions'[webhook'[d].id].user_id] = "BASIC"]_vars


\* ------------------------------------------------------------------ C29
SubscriptionEvents ==
  {"customer.subscription.created", "customer.subscription.updated",
   "customer.subscription.deleted"}

\* C29: a correctly signed subscription event is answered 200 only when the
\* database changes it calls for were applied: a delivery whose event handler
\* failed or returned early is answered with another status.
C29_OkOnlyWhenApplied ==
  \A d \in Deliveries :
    (webhook[d].pc = "done" /\ webhook[d].signed
       /\ webhook[d].type \in SubscriptionEvents
       /\ webhook[d].status = 200)
      => webhook[d].outcome = "applied"

\* ------------------------------------------------------------------ C30
\* no delivery is between two of its calls
Quiescent == \A d \in Deliveries : webhook[d].pc \in {"idle", "done"}

\* C30: once the delivered events are processed, every user whose plan is
\* MAX or BEAST owns at least one subscription row of status 'active'.
C30_PaidPlanHasActiveSubscription ==
  Quiescent =>
    \A u \in DOMAIN users :
      users[u] \in {"MAX", "BEAST"} =>
        \E id \in DOMAIN subscriptions :
          /\ subscriptions[id].user_id = u
          /\ subscriptions[id].status = "active"


\* ------------------------------------------------------------------ C27
\* One chat request while one webhook delivery is processed: the steps of
\* the chat handler and the steps of the webhook interleave at their awaits,
\* on the same users table.
BillingRequests == {1}

BillingDeliveries == {1}

BillingNext ==
  \/ \E r \in BillingRequests : LiveReceive(r)
  \/ \E r \in BillingRequests : Step(r)
  \/ \E d \in BillingDeliveries : Deliver(d)
  \/ \E d \in BillingDeliveries : RetrieveCustomer(d)
  \/ \E d \in BillingDeliveries : FindUser(d)
  \/ \E d \in BillingDeliveries : InsertSubscription(d)
  \/ \E d \in BillingDeliveries : RetrieveSubscription(d)
  \/ \E d \in BillingDeliveries : UpdateSubscription(d)
  \/ \E d \in BillingDeliveries : SelectOwner(d)
  \/ \E d \in BillingDeliveries : UpdateUserPlan(d)

SpecBilling == WebhookInit /\ [][BillingNext]_vars

\* C27: within one chat request, the plan the model-access check was made
\* against (getUserPlan) and the plan whose limit the admission check uses
\* (getUserById inside canUserMakeRequest) are the same plan, also when a
\* webhook delivery changes the plan of the user meanwhile.
C27_OnePlanPerRequest ==
  \A r \in Requests :
    (local[r].userPlan # Null /\ local[r].user # Null)
      => local[r].user = local[r].userPlan


\* ------------------------------------------------------------------ C28
\* The chat handler with its requests processed strictly one after another:
\* a request arrives only when no other request is between its arrival and
\* its response.
SerialInit ==
  /\ now = 1
  /\ lib = {}
  /\ InitRequests
  /\ env \in {"production", "development"}
  /\ subscriptions = << >>
  /\ webhook = [d \in Deliveries |-> NoDelivery]
  /\ requests = << >>
  /\ clock = 0
  /\ \E plan \in Plans :
       /\ users = [u \in DbUsers |-> IF u = "u1" THEN plan ELSE "MAX"]
       /\ \E used \in {LimitOf(plan) - estimateTokenUsage(100, 0),
                      LimitOf(plan)} :
            token_usage =
              <<OldRow("u1", 30000, 0), OldRow("u2", 60000, 1),
                OldRow("u1", used, 1)>>

\* a request that arrives while another is in progress
SerialReceive_Overlapping(r) == Receive(r)

SerialReceive(r) ==
  /\ \A r2 \in Requests \ {r} : pc[r2] \in {"idle", "done"}
  /\ Receive(r)

SerialNext ==
  \/ \E r \in Requests : SerialReceive(r)
  \/ \E r \in Requests : Step(r)

SpecSerial == SerialInit /\ [][SerialNext]_vars

\* the row of request r is the last row of its user
LastRow(r) ==
  /\ Has(r, "record")
  /\ \A i \in 1..Len(token_usage) :
       i > RowIndex(r) => token_usage[i].user_id # body[r].userId

\* C28 as claimed: with the requests processed one after another, the
\* month's total of a user does not exceed the limit of the plan once a
\* request has written its usage row.
C28_NeverAboveQuota ==
  \A r \in Requests :
    Has(r, "record") =>
      getMonthlyTokenUsage(body[r].userId) <= LimitOf(local[r].user)

\* C28 as amended: with the requests processed one after another, once a
\* request has written the last usage row of its user the month's total is
\* at most the limit of the plan less the estimate plus the tokens of that
\* row, so it exceeds the limit by less than the tokens the provider
\* reported for that one request.
C28_OverrunBelowLastRequest ==
  \A r \in Requests :
    LastRow(r) =>
      /\ getMonthlyTokenUsage(body[r].userId)
           <= LimitOf(local[r].user) - local[r].estimatedTokens + Recorded(r)
      /\ getMonthlyTokenUsage(body[r].userId) - LimitOf(local[r].user)
           < Recorded(r)

\* a request pushed the total over the limit, and a later request of the
\* user was refused for it
C28_Witness ==
  \E r, r2 \in Requests :
    /\ r # r2
    /\ body[r2].userId = body[r].userId
    /\ LastRow(r)
    /\ getMonthlyTokenUsage(body[r].userId) > LimitOf(local[r].user)
    /\ Has(r2, "quota_exceeded")
    /\ local[r2].seen >= RowIndex(r)

=============================================================================
